---- MODULE Spec2Model ----
(***************************************************************************)
(* The [MR,* ] distributed matrix of Elemental                             *)
(* (src/src/core/DistMatrix/Base_MR_STAR.cpp): a matrix whose rows are     *)
(* dealt cyclically over the c columns of an r x c process grid and whose  *)
(* columns are replicated, run SPMD by the r*c processes of the grid.      *)
(*                                                                         *)
(* Every process holds its own copy of the object (its fields and its      *)
(* local buffer); an operation is called by all processes and each runs    *)
(* the same code with its own grid coordinates.  Spec takes one collective *)
(* call per step and records, per process, the checks and communication    *)
(* calls it made; SpecChain chains assignments between two [MR,* ] objects *)
(* on grids of up to three columns; SpecLive runs one redistribution       *)
(* process by process, with the blocking calls as separate steps.          *)
(***************************************************************************)
EXTENDS Integers, Sequences, FiniteSets, TLC

\* ------------------------------------------------------------------ bounds
MaxR == 2          \* grid heights 1..MaxR
MaxC == 2          \* grid widths 1..MaxC
MaxH == 3          \* global heights 0..MaxH
MaxW == 3          \* global widths 0..MaxW
MaxOps == 2        \* collective calls per behaviour of Spec
MaxMinCollMsg == 1 \* mpi::MIN_COLL_MSG ranges over 1..MaxMinCollMsg

VARIABLES
    r,          \* Grid::Height()
    c,          \* Grid::Width()
    release,    \* TRUE: built with RELEASE defined (no debug checks)
    minCollMsg, \* mpi::MIN_COLL_MSG
    dm,         \* dm[n][q]: process q's copy of the [MR,* ] object n
    trace,      \* trace[q]: checks, communication calls and throws of the last call
    lastOp,     \* the last collective call and its arguments
    hung,       \* the last call's communication could not complete
    nops,       \* number of calls so far
    ret,        \* ret[q]: what the last call returned on process q
    H,          \* the global height of the matrices of this run
    W,          \* the global width of the matrices of this run
    job,        \* SpecLive: what each process does in the call in progress
    at          \* SpecLive: at[q]: how far process q is in that call

vars ==
    <<r, c, release, minCollMsg, dm, trace, lastOp, hung, nops, ret, H, W, job, at>>

Names == {"X", "Y"}

\* --------------------------------------------------------------- the grid
\* A process is its grid position <<row, col>>.
Ranks == (0..(r-1)) \X (0..(c-1))
MCRank(q) == q[1]
MRRank(q) == q[2]
VCRank(q) == q[1] + r * q[2]
VRRank(q) == q[2] + c * q[1]
GridSize == r * c

Max(a, b) == IF a >= b THEN a ELSE b

\* ------------------------------------------- distribution index arithmetic
\* The operator % of C++ truncates towards zero: the remainder of a negative
\* dividend is negative or zero.
Rem(a, b) == IF a >= 0 THEN a % b ELSE 0 - ((0 - a) % b)
Shift(rank, alignment, stride) == Rem(rank + stride - alignment, stride)
RawShift(rank, alignment, stride) == Rem(rank + stride - alignment, stride)
LocalLength(n, shift, stride) ==
    IF n > shift THEN ((n - shift - 1) \div stride) + 1 ELSE 0
RawLocalLength(n, shift, stride) ==
    IF n > shift THEN ((n - shift - 1) \div stride) + 1 ELSE 0
MaxLocalLength(n, stride) == IF n > 0 THEN ((n - 1) \div stride) + 1 ELSE 0

\* ----------------------------------------------------------------- entries
\* An entry of the ring T is a Gaussian integer re + i*im.  Storage that was
\* allocated and never written holds an arbitrary value private to the process:
\* it is kept as the symbolic entry Uninit(id), id > 0; two such entries with
\* different ids are unrelated values.
Elem(re, im) == [re |-> re, im |-> im, u |-> 0]
Uninit(id) == [re |-> 0, im |-> 0, u |-> id]
UninitOf(q) == Uninit(1 + VCRank(q))
IsDefined(e) == e.u = 0
Zero == Elem(0, 0)
One == Elem(1, 0)
Add(a, b) ==
    IF a.u # 0 THEN a ELSE IF b.u # 0 THEN b ELSE Elem(a.re + b.re, a.im + b.im)
Conj(a) == IF a.u # 0 THEN a ELSE Elem(a.re, 0 - a.im)

\* The entry (i,j) of every source matrix built outside the [MR,* ] objects.
Val(i, j) == Elem(i + 1, j + 1)

\* ------------------------------------------------------ per-process tables
\* A value per process, computed once: the set of the pairs <<q, F(q)>>.
Each(F(_)) == {<<q, F(q)>> : q \in Ranks}
Of(tab, q) == (CHOOSE x \in tab : x[1] = q)[2]

\* ---------------------------------------------------------- local matrices
\* Matrix<T>: h x w entries stored by columns, entry (i,j) at d[1 + i + j*h].
LocalMatrix(h, w, f(_, _)) ==
    [h |-> h, w |-> w,
     d |-> [k \in 1..(h * w) |-> f((k - 1) % h, (k - 1) \div h)] \o <<>>]
EmptyMatrix == [h |-> 0, w |-> 0, d |-> <<>>]
\* Reading outside the matrix reads whatever lies there.
At(M, i, j, q) ==
    IF i >= 0 /\ i < M.h /\ j >= 0 /\ j < M.w THEN M.d[1 + i + j * M.h]
    ELSE UninitOf(q)
\* Matrix<T>::ResizeTo: the storage is (re)allocated, its content is not set.
FreshMatrix(h, w, q) == LocalMatrix(h, w, LAMBDA i, j : UninitOf(q))

\* A flat buffer of n entries, entry k at b[k+1], written by f where wr holds.
Buffer(n, q, wr(_), f(_)) ==
    [k \in 1..n |-> IF wr(k - 1) THEN f(k - 1) ELSE UninitOf(q)] \o <<>>
BufAt(b, k, q) == IF k >= 0 /\ k < Len(b) THEN b[k + 1] ELSE UninitOf(q)

\* ------------------------------------------------------------ the objects
\* DistMatrixBase<T,MR,STAR>'s fields on one process.  viewOf names the object
\* whose local buffer a view refers to ("" for an object that owns its buffer),
\* viewAt the local row and column of that buffer at which the view starts,
\* viewShape the view's local height and width.
NewDistMatrix(q) ==
    [height |-> 0, width |-> 0,
     colAlignment |-> 0, colShift |-> Shift(MRRank(q), 0, c),
     constrainedColAlignment |-> FALSE,
     viewing |-> FALSE, lockedView |-> FALSE,
     viewOf |-> "", viewAt |-> <<0, 0>>, viewShape |-> <<0, 0>>,
     localMatrix |-> EmptyMatrix]

\* Matrix<T>::View(A, i, j, height, width): the cells (i+k, j+l) of A.
Window(M, pos, shape, q) ==
    LocalMatrix(shape[1], shape[2],
                LAMBDA i, j : At(M, pos[1] + i, pos[2] + j, q))
\* The buffer M after its window at pos was overwritten with L.
Embedded(M, pos, L, q) ==
    LocalMatrix(M.h, M.w,
                LAMBDA i, j : IF /\ i >= pos[1] /\ i < pos[1] + L.h
                                 /\ j >= pos[2] /\ j < pos[2] + L.w
                              THEN At(L, i - pos[1], j - pos[2], q)
                              ELSE At(M, i, j, q))
\* The local matrix object n shows on process q (a view shows a window of
\* its owner's).
LocalOf(d, n, q) ==
    IF d[n][q].viewOf = "" THEN d[n][q].localMatrix
    ELSE Window(d[d[n][q].viewOf][q].localMatrix,
                d[n][q].viewAt, d[n][q].viewShape, q)

\* Objects of which a view exists.
Viewed(n) == \E m \in Names, q \in Ranks : dm[m][q].viewOf = n

\* A process's position in a call: the communication calls it has entered and
\* those that have completed, and whether it is in the call.
Position(state, entered, completed) ==
    [state |-> state, entered |-> entered, completed |-> completed]
Idle == Position("idle", 0, 0)
NoJob == <<>>

\* ------------------------------------------------------- the call's record
\* What a process did during a call, in order: debug checks it evaluated,
\* communication calls it issued, the exception it threw.
NoRank == 0 - 1
Event(ev, kind, comm, to, from, scount, rcount) ==
    [ev |-> ev, kind |-> kind, comm |-> comm, to |-> to, from |-> from,
     scount |-> scount, rcount |-> rcount]
CheckEv(kind) == Event("check", kind, "", NoRank, NoRank, 0, 0)
ThrowEv(kind) == Event("throw", kind, "", NoRank, NoRank, 0, 0)
SendRecvEv(comm, to, from, scount, rcount) ==
    Event("comm", "SendRecv", comm, to, from, scount, rcount)
AllGatherEv(comm, count) ==
    Event("comm", "AllGather", comm, NoRank, NoRank, count, count)
IsComm(e) == e.ev = "comm"
IsCheck(e) == e.ev = "check"
IsThrow(e) == e.ev = "throw"
\* Memory<T>::Require(size) and Memory<T>::Release() on the object's _auxMemory.
RequireEv(size) == Event("mem", "Require", "", NoRank, NoRank, size, 0)
ReleaseEv == Event("mem", "Release", "", NoRank, NoRank, 0, 0)
IsMem(e) == e.ev = "mem"
\* The calls tr made with the auxiliary buffer of the given size.
Scoped_NoRelease(size, tr) == <<RequireEv(size)>> \o tr
Scoped(size, tr) == <<RequireEv(size)>> \o tr \o <<ReleaseEv>>
CommCalls(q) == SelectSeq(trace[q], IsComm)

\* A debug check: its name and whether it passes.
Chk(kind, ok) == [kind |-> kind, ok |-> ok]
FirstBad(checks) ==
    IF \E k \in 1..Len(checks) : ~checks[k].ok
    THEN CHOOSE k \in 1..Len(checks) :
            ~checks[k].ok /\ \A l \in 1..(k-1) : checks[l].ok
    ELSE 0
\* The checks exist only without RELEASE; the first that fails throws.
Fails(checks) == ~release /\ FirstBad(checks) # 0
CheckTrace(checks) ==
    IF release THEN <<>>
    ELSE IF FirstBad(checks) = 0
         THEN [k \in 1..Len(checks) |-> CheckEv(checks[k].kind)]
         ELSE [k \in 1..(FirstBad(checks) + 1) |->
                 IF k <= FirstBad(checks) THEN CheckEv(checks[k].kind)
                 ELSE ThrowEv(checks[FirstBad(checks)].kind)]
\* Whether the call meets the preconditions the checks state.
Meets(checks) == \A k \in 1..Len(checks) : checks[k].ok

\* ------------------------------------------------------- source descriptors
Descr(dist, sameGrid, height, width, colAlignment, rowAlignment) ==
    [dist |-> dist, sameGrid |-> sameGrid, height |-> height, width |-> width,
     colAlignment |-> colAlignment, rowAlignment |-> rowAlignment]
NoSource == Descr("", TRUE, 0, 0, 0, 0)
OpRec(op, n, src, A) == [op |-> op, n |-> n, src |-> src, A |-> A]

\* ------------------------------------------------------------ the sources
\* The source A of an assignment as process q sees it: its global shape, its
\* alignments and shifts, and A's local matrix on q.
SourceOn(dist, sameGrid, height, width, colAlignment, rowAlignment,
         colShift, rowShift, local) ==
    [dist |-> dist, sameGrid |-> sameGrid, height |-> height, width |-> width,
     colAlignment |-> colAlignment, rowAlignment |-> rowAlignment,
     colShift |-> colShift, rowShift |-> rowShift, local |-> local]

\* The [MR,* ] object m as a source.
NamedSource(m) ==
    Each(LAMBDA q :
        SourceOn("MR_STAR", TRUE, dm[m][q].height, dm[m][q].width,
                 dm[m][q].colAlignment, 0, dm[m][q].colShift, 0,
                 LocalOf(dm, m, q)))

\* A source of another distribution, or on another object, holding the matrix
\* Val: its columns of entries are dealt with stride ColStride from the
\* process of rank colAlignment on, its rows likewise.
ColStride(dist) ==
    IF dist \in {"MR_MC", "MR_STAR"} THEN c
    ELSE IF dist \in {"MC_MR", "MC_STAR"} THEN r
    ELSE IF dist \in {"VR_STAR", "VC_STAR"} THEN GridSize
    ELSE 1
ColRank(dist, q) ==
    IF dist \in {"MR_MC", "MR_STAR"} THEN MRRank(q)
    ELSE IF dist \in {"MC_MR", "MC_STAR"} THEN MCRank(q)
    ELSE IF dist = "VR_STAR" THEN VRRank(q)
    ELSE IF dist = "VC_STAR" THEN VCRank(q)
    ELSE 0
RowStride(dist) ==
    IF dist \in {"MR_MC", "STAR_MC"} THEN r
    ELSE IF dist \in {"MC_MR", "STAR_MR"} THEN c
    ELSE IF dist \in {"STAR_VR", "STAR_VC"} THEN GridSize
    ELSE 1
RowRank(dist, q) ==
    IF dist \in {"MR_MC", "STAR_MC"} THEN MCRank(q)
    ELSE IF dist \in {"MC_MR", "STAR_MR"} THEN MRRank(q)
    ELSE IF dist = "STAR_VR" THEN VRRank(q)
    ELSE IF dist = "STAR_VC" THEN VCRank(q)
    ELSE 0
ExternalOn_Contiguous(A, q) ==
    LET colShift == Shift(ColRank(A.dist, q), A.colAlignment, ColStride(A.dist))
        rowShift == Shift(RowRank(A.dist, q), A.rowAlignment, RowStride(A.dist))
    IN SourceOn(A.dist, A.sameGrid, A.height, A.width,
                A.colAlignment, A.rowAlignment, colShift, rowShift,
                LocalMatrix(LocalLength(A.height, colShift, ColStride(A.dist)),
                            LocalLength(A.width, rowShift, RowStride(A.dist)),
                            LAMBDA i, j : Val(colShift + i, rowShift + j)))
ExternalOn(A, q) ==
    LET colShift == Shift(ColRank(A.dist, q), A.colAlignment, ColStride(A.dist))
        rowShift == Shift(RowRank(A.dist, q), A.rowAlignment, RowStride(A.dist))
    IN SourceOn(A.dist, A.sameGrid, A.height, A.width,
                A.colAlignment, A.rowAlignment, colShift, rowShift,
                LocalMatrix(LocalLength(A.height, colShift, ColStride(A.dist)),
                            LocalLength(A.width, rowShift, RowStride(A.dist)),
                            LAMBDA i, j : Val(colShift + i * ColStride(A.dist),
                                              rowShift + j * RowStride(A.dist))))
ExternalSource(A) == Each(LAMBDA q : ExternalOn(A, q))

\* --------------------------------------------------------------- ResizeTo
\* DistMatrixBase<T,MR,STAR>::ResizeTo on one process.
ResizeChecks(this, height, width) ==
    <<Chk("NotLockedView", ~this.lockedView),
      Chk("NonNegative", height >= 0 /\ width >= 0)>>
ResizedThis(this, height, width) ==
    [this EXCEPT !.height = height, !.width = width]
ResizedLocal(this, height, width, q) ==
    FreshMatrix(LocalLength(height, this.colShift, c), width, q)

\* ------------------------------------------- the checks of an assignment
AssignChecks(this, A) ==
    <<Chk("NotLockedView", ~this.lockedView), Chk("SameGrid", A.sameGrid)>>
    \o (IF this.viewing
        THEN <<Chk("SameSize", this.height = A.height /\ this.width = A.width)>>
        ELSE <<>>)

\* ------------------------------------------------------ message passing
\* The process with rank k of communicator comm, as process q sees it: MRComm
\* is q's grid row, MCComm q's grid column, VRComm the whole grid row-major.
PeerOf(comm, q, k) ==
    IF comm = "MR" THEN <<MCRank(q), k>>
    ELSE IF comm = "MC" THEN <<k, MRRank(q)>>
    ELSE <<k \div c, k % c>>
RankIn(comm, q) ==
    IF comm = "MR" THEN MRRank(q)
    ELSE IF comm = "MC" THEN MCRank(q)
    ELSE VRRank(q)
CommSize(comm) ==
    IF comm = "MR" THEN c ELSE IF comm = "MC" THEN r ELSE GridSize
CommMembers(comm, q) == {PeerOf(comm, q, k) : k \in 0..(CommSize(comm) - 1)}
\* mpi::SendRecv: what process q receives when it receives count entries from
\* the process src; sent holds the send buffer of every process.
Received(q, src, sent, count) ==
    [k \in 1..count |->
        IF src \in Ranks THEN BufAt(Of(sent, src), k - 1, q) ELSE UninitOf(q)] \o <<>>
\* mpi::AllGather over MCComm: the first count entries of the buffers of the
\* processes of q's grid column, in the order of their grid row.
Gathered(q, sent, count) ==
    [k \in 1..(r * count) |->
        BufAt(Of(sent, <<(k - 1) \div count, MRRank(q)>>), (k - 1) % count, q)]
    \o <<>>
\* The k-th communication call of each process matches those of its partners:
\* a SendRecv's source sends to the receiver, its destination receives from the
\* sender and the message fits; a collective (AllGather, AllReduce, Broadcast)
\* is entered by all members of its communicator with the same arguments; a
\* redistribution of a temporary is entered by all processes.  Collectives on
\* one communicator match in the order in which each member issues them.
\* The calls of a process on one communicator, in order.
OnComm(tr, comm) == SelectSeq(tr, LAMBDA e : e.comm = comm)
MatchesAt(T, q, k) ==
    LET e == Of(T, q)[k] IN
    IF e.kind = "SendRecv"
    THEN /\ PeerOf(e.comm, q, e.from) \in Ranks
         /\ PeerOf(e.comm, q, e.to) \in Ranks
         /\ \A x \in {Of(T, PeerOf(e.comm, q, e.from))} :
               /\ Len(x) >= k
               /\ x[k].kind = "SendRecv" /\ x[k].comm = e.comm
               /\ x[k].to = RankIn(e.comm, q)
               /\ x[k].scount <= e.rcount
         /\ \A x \in {Of(T, PeerOf(e.comm, q, e.to))} :
               /\ Len(x) >= k
               /\ x[k].kind = "SendRecv" /\ x[k].comm = e.comm
               /\ x[k].from = RankIn(e.comm, q)
    ELSE IF e.kind = "Redistribute"
    THEN \A x \in Ranks : Len(Of(T, x)) >= k /\ Of(T, x)[k] = e
    ELSE \A x \in CommMembers(e.comm, q) :
            /\ Len(OnComm(Of(T, x), e.comm))
                  >= Len(OnComm(SubSeq(Of(T, q), 1, k), e.comm))
            /\ OnComm(Of(T, x), e.comm)[Len(OnComm(SubSeq(Of(T, q), 1, k), e.comm))]
                  = e
Matches(T) == \A q \in Ranks : \A k \in 1..Len(Of(T, q)) : MatchesAt(T, q, k)

\* The result of a call on one process: the checks come first and the first
\* that fails throws, leaving the object as it was; otherwise the body runs.
Outcome(n, q, checks, this, local, tr) ==
    IF Fails(checks)
    THEN [failed |-> TRUE, meets |-> FALSE, this |-> dm[n][q],
          local |-> LocalOf(dm, n, q), trace |-> CheckTrace(checks), ret |-> Zero]
    ELSE [failed |-> FALSE, meets |-> Meets(checks), this |-> this,
          local |-> local, trace |-> CheckTrace(checks) \o tr, ret |-> Zero]

\* The start of every assignment: an object that is not a view takes the
\* source's column alignment unless its own is constrained, and is resized.
Adopted_Always(this, colAlignment, colShift, height, width) ==
    IF this.viewing THEN this
    ELSE ResizedThis([this EXCEPT !.colAlignment = colAlignment,
                                  !.colShift = colShift],
                     height, width)
Adopted(this, colAlignment, colShift, height, width) ==
    IF this.viewing THEN this
    ELSE ResizedThis(
            IF ~this.constrainedColAlignment
            THEN [this EXCEPT !.colAlignment = colAlignment, !.colShift = colShift]
            ELSE this,
            height, width)
\* The target's local matrix before the data arrives.
Before(n, this, q) ==
    IF dm[n][q].viewing THEN LocalOf(dm, n, q)
    ELSE ResizedLocal(this, this.height, this.width, q)
ResizeTrace(n, height, width, q) ==
    IF dm[n][q].viewing THEN <<>>
    ELSE CheckTrace(ResizeChecks(dm[n][q], height, width))
\* The last (highest) of the loop indices that write an entry.
LastOf(writers) == CHOOSE k \in writers : \A l \in writers : l <= k

\* ------------------------------------------------- [MR,* ] = [MR,* ]
MS_SendRank(rank, colAlignment, colAlignmentOfA) ==
    Rem(rank + c + colAlignment - colAlignmentOfA, c)
MS_RecvRank_AsSend(rank, colAlignment, colAlignmentOfA) ==
    (rank + c + colAlignment - colAlignmentOfA) % c
MS_RecvRank(rank, colAlignment, colAlignmentOfA) ==
    Rem(rank + c + colAlignmentOfA - colAlignment, c)
MS_SendSize(localHeightOfA, width) == localHeightOfA * width
MS_RecvSize(localHeight, width) == localHeight * width
\* What process q works with: the target after the alignment and the resize,
\* the branch taken, the partners and the message sizes.
MS_Plan(n, A, q) ==
    LET this == Adopted(dm[n][q], A.colAlignment, A.colShift, A.height, A.width)
        before == Before(n, this, q)
    IN [this |-> this, before |-> before,
        aligned |-> this.colAlignment = A.colAlignment,
        sendRank |-> MS_SendRank(MRRank(q), this.colAlignment, A.colAlignment),
        recvRank |-> MS_RecvRank(MRRank(q), this.colAlignment, A.colAlignment),
        sendSize |-> MS_SendSize(A.local.h, this.width),
        recvSize |-> MS_RecvSize(before.h, this.width)]
\* Pack: column j of A's local matrix at offset j*localHeightOfA.
MS_SendBuffer(A, P, q) ==
    Buffer(P.sendSize, q, LAMBDA k : TRUE,
           LAMBDA k : At(A.local, k % A.local.h, k \div A.local.h, q))
\* Unpack: column j of the local matrix from offset j*localHeight.
MS_Unpacked_ByRows(P, recvBuffer, q) ==
    LocalMatrix(P.before.h, P.this.width,
                LAMBDA i, j : BufAt(recvBuffer, j + i * P.this.width, q))
MS_Unpacked(P, recvBuffer, q) ==
    LocalMatrix(P.before.h, P.this.width,
                LAMBDA i, j : BufAt(recvBuffer, i + j * P.before.h, q))
MS_Comm_Always(P) ==
    <<SendRecvEv("MR", P.sendRank, P.recvRank, P.sendSize, P.recvSize)>>
MS_Comm(P) ==
    IF P.aligned THEN <<>>
    ELSE <<SendRecvEv("MR", P.sendRank, P.recvRank, P.sendSize, P.recvSize)>>
AssignFromMR_STAR(n, S) ==
    LET plan == Each(LAMBDA q : MS_Plan(n, Of(S, q), q))
        sendBuffer == Each(LAMBDA q : MS_SendBuffer(Of(S, q), Of(plan, q), q))
        recvBuffer ==
            Each(LAMBDA q : Received(q, PeerOf("MR", q, Of(plan, q).recvRank),
                                     sendBuffer, Of(plan, q).recvSize))
    IN Each(LAMBDA q :
            Outcome(n, q, AssignChecks(dm[n][q], Of(S, q)), Of(plan, q).this,
                    IF Of(plan, q).aligned THEN Of(S, q).local
                    ELSE MS_Unpacked(Of(plan, q), Of(recvBuffer, q), q),
                    ResizeTrace(n, Of(S, q).height, Of(S, q).width, q)
                    \o (IF Of(plan, q).aligned THEN MS_Comm(Of(plan, q))
                        ELSE Scoped(Of(plan, q).sendSize + Of(plan, q).recvSize,
                                    MS_Comm(Of(plan, q))))))

\* ------------------------------------------------- [MR,* ] = [MR,MC]
MM_SendCol(col, colAlignment, colAlignmentOfA) ==
    Rem(col + c + colAlignment - colAlignmentOfA, c)
MM_RecvCol(col, colAlignment, colAlignmentOfA) ==
    Rem(col + c + colAlignmentOfA - colAlignment, c)
MM_PortionSize_NoMinimum(aligned, height, width, localHeight) ==
    IF aligned
    THEN localHeight * MaxLocalLength(width, r)
    ELSE MaxLocalLength(height, c) * MaxLocalLength(width, r)
MM_PortionSize(aligned, height, width, localHeight) ==
    IF aligned
    THEN Max(localHeight * MaxLocalLength(width, r), minCollMsg)
    ELSE Max(MaxLocalLength(height, c) * MaxLocalLength(width, r), minCollMsg)
MM_Plan(n, A, q) ==
    LET this == Adopted(dm[n][q], A.colAlignment,
                        Shift(MRRank(q), A.colAlignment, c), A.height, A.width)
        before == Before(n, this, q)
        aligned == this.colAlignment = A.colAlignment
    IN [this |-> this, before |-> before, aligned |-> aligned,
        sendCol |-> MM_SendCol(MRRank(q), this.colAlignment, A.colAlignment),
        recvCol |-> MM_RecvCol(MRRank(q), this.colAlignment, A.colAlignment),
        portionSize |-> MM_PortionSize(aligned, this.height, this.width, before.h),
        colLength |-> IF aligned THEN before.h ELSE A.local.h]
\* Pack: column jLocal of A's local matrix at offset jLocal*colLength, where
\* colLength is the target's local height when aligned and A's when not.
MM_Packed(A, P, q) ==
    Buffer(P.portionSize, q,
           LAMBDA k : k < A.local.w * P.colLength,
           LAMBDA k : At(A.local, k % P.colLength, k \div P.colLength, q))
\* Unpack: the portion of grid row k holds the columns rowShift + jLocal*r.
MM_Writers(P, rowAlignmentOfA, j) ==
    {k \in 0..(r-1) :
        /\ j >= RawShift(k, rowAlignmentOfA, r)
        /\ (j - RawShift(k, rowAlignmentOfA, r)) % r = 0
        /\ (j - RawShift(k, rowAlignmentOfA, r)) \div r
              < RawLocalLength(P.this.width, RawShift(k, rowAlignmentOfA, r), r)}
MM_Entry_NoRowAlignment(P, rowAlignmentOfA, gathered, q, i, j, k) ==
    BufAt(gathered,
          k * P.portionSize + ((j - RawShift(k, 0, r)) \div r) * P.before.h + i,
          q)
MM_Entry(P, rowAlignmentOfA, gathered, q, i, j, k) ==
    BufAt(gathered,
          k * P.portionSize
            + ((j - RawShift(k, rowAlignmentOfA, r)) \div r) * P.before.h + i,
          q)
MM_Unpacked(P, rowAlignmentOfA, gathered, q) ==
    LocalMatrix(P.before.h, P.before.w,
                LAMBDA i, j :
                    IF MM_Writers(P, rowAlignmentOfA, j) = {}
                    THEN At(P.before, i, j, q)
                    ELSE MM_Entry(P, rowAlignmentOfA, gathered, q, i, j,
                                  LastOf(MM_Writers(P, rowAlignmentOfA, j))))
MM_Comm_GatherFirst(P) ==
    <<AllGatherEv("MC", P.portionSize)>>
    \o (IF P.aligned THEN <<>>
        ELSE <<SendRecvEv("MR", P.sendCol, P.recvCol, P.portionSize, P.portionSize)>>)
MM_Comm(P) ==
    (IF P.aligned THEN <<>>
     ELSE <<SendRecvEv("MR", P.sendCol, P.recvCol, P.portionSize, P.portionSize)>>)
    \o <<AllGatherEv("MC", P.portionSize)>>
MM_Run(n, S, checks) ==
    LET plan == Each(LAMBDA q : MM_Plan(n, Of(S, q), q))
        packed == Each(LAMBDA q : MM_Packed(Of(S, q), Of(plan, q), q))
        portion ==
            Each(LAMBDA q :
                IF Of(plan, q).aligned THEN Of(packed, q)
                ELSE Received(q, PeerOf("MR", q, Of(plan, q).recvCol), packed,
                              Of(plan, q).portionSize))
        gathered == Each(LAMBDA q : Gathered(q, portion, Of(plan, q).portionSize))
    IN Each(LAMBDA q :
            Outcome(n, q, Of(checks, q), Of(plan, q).this,
                    MM_Unpacked(Of(plan, q), Of(S, q).rowAlignment,
                                Of(gathered, q), q),
                    ResizeTrace(n, Of(S, q).height, Of(S, q).width, q)
                    \o Scoped((r + 1) * Of(plan, q).portionSize,
                              MM_Comm(Of(plan, q)))))
AssignFromMR_MC(n, S) ==
    MM_Run(n, S, Each(LAMBDA q : AssignChecks(dm[n][q], Of(S, q))))

\* ------------------------------------------- AdjointFrom, TransposeFrom
\* The [MC,MR] source A read as its (conjugate) transpose: the code is that of
\* [MR,* ] = [MR,MC] with A's rows and columns exchanged on every access.
Transposed_Unconjugated(S, conjugate) ==
    Each(LAMBDA q :
        SourceOn(Of(S, q).dist, Of(S, q).sameGrid, Of(S, q).width, Of(S, q).height,
                 Of(S, q).rowAlignment, Of(S, q).colAlignment,
                 Of(S, q).rowShift, Of(S, q).colShift,
                 LocalMatrix(Of(S, q).local.w, Of(S, q).local.h,
                             LAMBDA i, j : At(Of(S, q).local, j, i, q))))
Transposed(S, conjugate) ==
    Each(LAMBDA q :
        SourceOn(Of(S, q).dist, Of(S, q).sameGrid, Of(S, q).width, Of(S, q).height,
                 Of(S, q).rowAlignment, Of(S, q).colAlignment,
                 Of(S, q).rowShift, Of(S, q).colShift,
                 LocalMatrix(Of(S, q).local.w, Of(S, q).local.h,
                             LAMBDA i, j : IF conjugate
                                           THEN Conj(At(Of(S, q).local, j, i, q))
                                           ELSE At(Of(S, q).local, j, i, q))))
TransposeChecks(this, A) ==
    <<Chk("NotLockedView", ~this.lockedView), Chk("SameGrid", A.sameGrid)>>
    \o (IF this.viewing
        THEN <<Chk("SameSizeAsTranspose",
                   this.height = A.width /\ this.width = A.height)>>
        ELSE <<>>)
AdjointFrom(n, S) ==
    MM_Run(n, Transposed(S, TRUE),
           Each(LAMBDA q : TransposeChecks(dm[n][q], Of(S, q))))
TransposeFrom(n, S) ==
    MM_Run(n, Transposed(S, FALSE),
           Each(LAMBDA q : TransposeChecks(dm[n][q], Of(S, q))))

\* ------------------------------------------------- [MR,* ] = [VR,* ]
MV_SendRank(rank, colAlignment, colAlignmentOfA) ==
    Rem(rank + GridSize + colAlignment - colAlignmentOfA, GridSize)
MV_RecvRank(rank, colAlignment, colAlignmentOfA) ==
    Rem(rank + GridSize + colAlignmentOfA - colAlignment, GridSize)
MV_PortionSize(height, width) ==
    Max(MaxLocalLength(height, GridSize) * width, minCollMsg)
MV_Plan(n, A, q) ==
    LET this == Adopted(dm[n][q], A.colAlignment % c,
                        Shift(MRRank(q), A.colAlignment % c, c), A.height, A.width)
        aligned == this.colAlignment = A.colAlignment % c
    IN [this |-> this, before |-> Before(n, this, q), aligned |-> aligned,
        sendRank |-> MV_SendRank(VRRank(q), this.colAlignment, A.colAlignment),
        recvRank |-> MV_RecvRank(VRRank(q), this.colAlignment, A.colAlignment),
        portionSize |-> MV_PortionSize(this.height, this.width),
        \* the column alignment the gathered portions are laid out by
        gatheredAlignment |-> IF aligned THEN A.colAlignment ELSE this.colAlignment]
\* Pack: column j of A's local matrix at offset j*localHeightOfA.
MV_Packed(A, P, q) ==
    Buffer(P.portionSize, q,
           LAMBDA k : k < P.this.width * A.local.h,
           LAMBDA k : At(A.local, k % A.local.h, k \div A.local.h, q))
\* Unpack: the portion of grid row k holds the local rows colOffset + iLocal*r.
MV_ColShiftOfA(P, q, k) == RawShift(MRRank(q) + c * k, P.gatheredAlignment, GridSize)
MV_ColOffset(P, q, k) == (MV_ColShiftOfA(P, q, k) - P.this.colShift) \div c
MV_Writers(P, q, i) ==
    {k \in 0..(r-1) :
        /\ i >= MV_ColOffset(P, q, k)
        /\ (i - MV_ColOffset(P, q, k)) % r = 0
        /\ (i - MV_ColOffset(P, q, k)) \div r
              < RawLocalLength(P.this.height, MV_ColShiftOfA(P, q, k), GridSize)}
MV_Entry(P, gathered, q, i, j, k) ==
    BufAt(gathered,
          k * P.portionSize
            + (i - MV_ColOffset(P, q, k)) \div r
            + j * RawLocalLength(P.this.height, MV_ColShiftOfA(P, q, k), GridSize),
          q)
MV_Unpacked(P, gathered, q) ==
    LocalMatrix(P.before.h, P.before.w,
                LAMBDA i, j :
                    IF MV_Writers(P, q, i) = {} THEN At(P.before, i, j, q)
                    ELSE MV_Entry(P, gathered, q, i, j, LastOf(MV_Writers(P, q, i))))
MV_Comm(P) ==
    (IF P.aligned THEN <<>>
     ELSE <<SendRecvEv("VR", P.sendRank, P.recvRank, P.portionSize, P.portionSize)>>)
    \o <<AllGatherEv("MC", P.portionSize)>>
AssignFromVR_STAR(n, S) ==
    LET plan == Each(LAMBDA q : MV_Plan(n, Of(S, q), q))
        packed == Each(LAMBDA q : MV_Packed(Of(S, q), Of(plan, q), q))
        portion ==
            Each(LAMBDA q :
                IF Of(plan, q).aligned THEN Of(packed, q)
                ELSE Received(q, PeerOf("VR", q, Of(plan, q).recvRank), packed,
                              Of(plan, q).portionSize))
        gathered == Each(LAMBDA q : Gathered(q, portion, Of(plan, q).portionSize))
    IN Each(LAMBDA q :
            Outcome(n, q, AssignChecks(dm[n][q], Of(S, q)), Of(plan, q).this,
                    MV_Unpacked(Of(plan, q), Of(gathered, q), q),
                    ResizeTrace(n, Of(S, q).height, Of(S, q).width, q)
                    \o Scoped((r + 1) * Of(plan, q).portionSize,
                              MV_Comm(Of(plan, q)))))

\* ------------------------------------------------- [MR,* ] = [* ,* ]
SS_This(this, A) ==
    IF this.viewing THEN this ELSE ResizedThis(this, A.height, A.width)
SS_Local_Contiguous(n, this, A, q) ==
    LocalMatrix(Before(n, this, q).h, this.width,
                LAMBDA i, j : At(A.local, this.colShift + i, j, q))
SS_Local(n, this, A, q) ==
    LocalMatrix(Before(n, this, q).h, this.width,
                LAMBDA i, j : At(A.local, this.colShift + i * c, j, q))
AssignFromSTAR_STAR(n, S) ==
    Each(LAMBDA q :
        Outcome(n, q, AssignChecks(dm[n][q], Of(S, q)), SS_This(dm[n][q], Of(S, q)),
                SS_Local(n, SS_This(dm[n][q], Of(S, q)), Of(S, q), q),
                ResizeTrace(n, Of(S, q).height, Of(S, q).width, q)))

\* ------------------------------------- [MR,* ] = [MD,* ], [MR,* ] = [* ,MD]
\* After the debug checks the assignment throws, in every build.
NotImplemented_DebugOnly(n, A, q) ==
    [failed |-> ~release, meets |-> Meets(AssignChecks(dm[n][q], A)),
     this |-> dm[n][q], local |-> LocalOf(dm, n, q), ret |-> Zero,
     trace |-> IF Fails(AssignChecks(dm[n][q], A))
               THEN CheckTrace(AssignChecks(dm[n][q], A))
               ELSE CheckTrace(AssignChecks(dm[n][q], A))
                    \o (IF release THEN <<>> ELSE <<ThrowEv("NotImplemented")>>)]
NotImplemented(n, A, q) ==
    [failed |-> TRUE, meets |-> Meets(AssignChecks(dm[n][q], A)),
     this |-> dm[n][q], local |-> LocalOf(dm, n, q), ret |-> Zero,
     trace |-> IF Fails(AssignChecks(dm[n][q], A))
               THEN CheckTrace(AssignChecks(dm[n][q], A))
               ELSE CheckTrace(AssignChecks(dm[n][q], A))
                    \o <<ThrowEv("NotImplemented")>>]
AssignFromMD(n, A) == Each(LAMBDA q : NotImplemented(n, A, q))

\* ------------------------------------------- [MR,* ] = [MC,* ] of width 1
MCV_PortionSize(height) == Max(MaxLocalLength(height, GridSize), minCollMsg)
MCV_SendRankRM(rankRM, colShiftVCOfA, colShiftVR) ==
    (rankRM + (GridSize + colShiftVCOfA - colShiftVR)) % GridSize
MCV_RecvRankCM(rankCM, colShiftVCOfA, colShiftVR) ==
    (rankCM + (GridSize + colShiftVR - colShiftVCOfA)) % GridSize
MCV_RecvRankRM_Unconverted(recvRankCM) == recvRankCM
MCV_RecvRankRM(recvRankCM) == (recvRankCM \div r) + c * (recvRankCM % r)
MCV_Plan(n, A, q) ==
    LET this == IF dm[n][q].viewing THEN dm[n][q]
                ELSE ResizedThis(dm[n][q], A.height, 1)
        colShiftVR == Shift(VRRank(q), this.colAlignment, GridSize)
        colShiftVCOfA == Shift(VCRank(q), A.colAlignment, GridSize)
    IN [this |-> this, before |-> Before(n, this, q),
        portionSize |-> MCV_PortionSize(this.height),
        colShiftVCOfA |-> colShiftVCOfA,
        sendRankRM |-> MCV_SendRankRM(VRRank(q), colShiftVCOfA, colShiftVR),
        recvRankRM |->
            MCV_RecvRankRM(MCV_RecvRankCM(VCRank(q), colShiftVCOfA, colShiftVR))]
\* A[VC,* ] <- A[MC,* ]: every c-th local entry of A from offset on.
MCV_Packed(A, P, q) ==
    Buffer(P.portionSize, q,
           LAMBDA k : k < LocalLength(P.this.height, P.colShiftVCOfA, GridSize),
           LAMBDA k : At(A.local, ((P.colShiftVCOfA - A.colShift) \div r) + k * c,
                         0, q))
\* Unpack: the portion of grid row k holds the local rows offset + iLocal*r.
MCV_Shift(P, q, k) == RawShift(MRRank(q) + c * k, P.this.colAlignment, GridSize)
MCV_Offset(P, q, k) == (MCV_Shift(P, q, k) - P.this.colShift) \div c
MCV_Writers(P, q, i) ==
    {k \in 0..(r-1) :
        /\ i >= MCV_Offset(P, q, k)
        /\ (i - MCV_Offset(P, q, k)) % r = 0
        /\ (i - MCV_Offset(P, q, k)) \div r
              < RawLocalLength(P.this.height, MCV_Shift(P, q, k), GridSize)}
MCV_Unpacked(P, gathered, q) ==
    LocalMatrix(P.before.h, P.before.w,
                LAMBDA i, j :
                    IF j # 0 \/ MCV_Writers(P, q, i) = {} THEN At(P.before, i, j, q)
                    ELSE BufAt(gathered,
                               LastOf(MCV_Writers(P, q, i)) * P.portionSize
                                 + (i - MCV_Offset(P, q, LastOf(MCV_Writers(P, q, i))))
                                      \div r,
                               q))
MCV_Comm(P) ==
    <<SendRecvEv("VR", P.sendRankRM, P.recvRankRM, P.portionSize, P.portionSize),
      AllGatherEv("MC", P.portionSize)>>
AssignFromMC_STAR_Vector(n, S) ==
    LET plan == Each(LAMBDA q : MCV_Plan(n, Of(S, q), q))
        packed == Each(LAMBDA q : MCV_Packed(Of(S, q), Of(plan, q), q))
        portion ==
            Each(LAMBDA q : Received(q, PeerOf("VR", q, Of(plan, q).recvRankRM),
                                     packed, Of(plan, q).portionSize))
        gathered == Each(LAMBDA q : Gathered(q, portion, Of(plan, q).portionSize))
    IN Each(LAMBDA q :
            Outcome(n, q, AssignChecks(dm[n][q], Of(S, q)), Of(plan, q).this,
                    MCV_Unpacked(Of(plan, q), Of(gathered, q), q),
                    ResizeTrace(n, Of(S, q).height, 1, q)
                    \o Scoped((r + 1) * Of(plan, q).portionSize,
                              MCV_Comm(Of(plan, q)))))

\* ------------------------------------------------- staged assignments
\* An assignment through temporaries: each temporary is assigned by the code
\* of its own distribution, which communicates and leaves the same matrix in
\* the temporary's layout; the last temporary is assigned to the target.
RedistributeEv(stage) == Event("comm", "Redistribute", stage, NoRank, NoRank, 0, 0)
\* DistMatrix<T,VR,STAR>(true,this->ColAlignment(),g) holding A.
Temp_VR_STAR(n, A) ==
    Each(LAMBDA x : ExternalOn(Descr("VR_STAR", TRUE, A.height, A.width,
                                     dm[n][x].colAlignment, 0), x))
\* DistMatrix<T,MR,MC> holding A, its column alignment the target's when
\* constrained to it and 0 when not.
Temp_MR_MC(n, A, constrained, rowAlignment) ==
    Each(LAMBDA x : ExternalOn(Descr("MR_MC", TRUE, A.height, A.width,
                                     IF constrained THEN dm[n][x].colAlignment ELSE 0,
                                     rowAlignment), x))
Staged_ChecksLast(n, A, stages, last) ==
    Each(LAMBDA q :
        [Of(last, q) EXCEPT
            !.trace = [k \in 1..Len(stages) |-> RedistributeEv(stages[k])]
                      \o Of(last, q).trace])
Staged(n, A, stages, last) ==
    Each(LAMBDA q :
        IF Fails(AssignChecks(dm[n][q], A))
        THEN Outcome(n, q, AssignChecks(dm[n][q], A), dm[n][q], LocalOf(dm, n, q),
                     <<>>)
        ELSE [Of(last, q) EXCEPT
                !.meets = Meets(AssignChecks(dm[n][q], A)) /\ Of(last, q).meets,
                !.trace = CheckTrace(AssignChecks(dm[n][q], A))
                          \o [k \in 1..Len(stages) |-> RedistributeEv(stages[k])]
                          \o Of(last, q).trace])
ViaVR_STAR(n, A, stages) ==
    Staged(n, A, stages, AssignFromVR_STAR(n, Temp_VR_STAR(n, A)))
ViaMR_MC(n, A, stages, constrained, rowAlignment) ==
    Staged(n, A, stages,
           AssignFromMR_MC(n, Temp_MR_MC(n, A, constrained, rowAlignment)))

AssignFromMC_MR(n, A) ==
    ViaVR_STAR(n, A, <<"[VC,* ] = [MC,MR]", "[VR,* ] = [VC,* ]">>)
\* The general branch of [MR,* ] = [MC,* ]: through [VC,* ] and [VR,* ].
AssignFromMC_STAR_Staged(n, A) ==
    ViaVR_STAR(n, A, <<"[VC,* ] = [MC,* ]", "[VR,* ] = [VC,* ]">>)
AssignFromMC_STAR(n, A) ==
    IF A.width = 1 THEN AssignFromMC_STAR_Vector(n, ExternalSource(A))
    ELSE AssignFromMC_STAR_Staged(n, A)
AssignFromSTAR_MR(n, A) ==
    ViaVR_STAR(n, A, <<"[MC,MR] = [* ,MR]", "[VC,* ] = [MC,MR]",
                       "[VR,* ] = [VC,* ]">>)
AssignFromSTAR_MC(n, A) ==
    ViaMR_MC(n, A, <<"[MR,MC] = [* ,MC]">>, FALSE, A.rowAlignment)
AssignFromVC_STAR(n, A) == ViaVR_STAR(n, A, <<"[VR,* ] = [VC,* ]">>)
AssignFromSTAR_VC(n, A) ==
    ViaMR_MC(n, A, <<"[MR,MC] = [* ,VC]">>, FALSE, A.rowAlignment % r)
AssignFromSTAR_VR(n, A) ==
    ViaMR_MC(n, A, <<"[* ,VC] = [* ,VR]", "[MR,MC] = [* ,VC]">>, TRUE, 0)

\* operator= for a source of distribution A.dist.
Assign(n, A) ==
    CASE A.dist = "MR_STAR" -> AssignFromMR_STAR(n, ExternalSource(A))
      [] A.dist = "MR_MC" -> AssignFromMR_MC(n, ExternalSource(A))
      [] A.dist = "VR_STAR" -> AssignFromVR_STAR(n, ExternalSource(A))
      [] A.dist = "STAR_STAR" -> AssignFromSTAR_STAR(n, ExternalSource(A))
      [] A.dist \in {"MD_STAR", "STAR_MD"} -> AssignFromMD(n, A)
      [] A.dist = "MC_MR" -> AssignFromMC_MR(n, A)
      [] A.dist = "MC_STAR" -> AssignFromMC_STAR(n, A)
      [] A.dist = "STAR_MR" -> AssignFromSTAR_MR(n, A)
      [] A.dist = "STAR_MC" -> AssignFromSTAR_MC(n, A)
      [] A.dist = "VC_STAR" -> AssignFromVC_STAR(n, A)
      [] A.dist = "STAR_VC" -> AssignFromSTAR_VC(n, A)
      [] A.dist = "STAR_VR" -> AssignFromSTAR_VR(n, A)

\* ------------------------------------------------------- Align, AlignCols
AlignChecks_RangeOnly(this, colAlignment) ==
    <<Chk("ValidColAlignment", colAlignment >= 0 /\ colAlignment < c)>>
AlignChecks(this, colAlignment) ==
    <<Chk("FreeColAlignment", ~this.constrainedColAlignment),
      Chk("FreeColAlignment", ~this.constrainedColAlignment),
      Chk("ValidColAlignment", colAlignment >= 0 /\ colAlignment < c)>>
AlignCols(n, colAlignment) ==
    Each(LAMBDA q :
        Outcome(n, q, AlignChecks(dm[n][q], colAlignment),
                [dm[n][q] EXCEPT !.colAlignment = colAlignment,
                                 !.colShift = Shift(MRRank(q), colAlignment, c),
                                 !.constrainedColAlignment = TRUE,
                                 !.height = 0, !.width = 0,
                                 !.viewShape = <<0, 0>>],
                FreshMatrix(0, 0, q), <<>>))

\* AlignWith(A): the alignment of the axis of A that is dealt over the grid
\* columns (over the whole grid for [VR,* ] and [* ,VR]), and the shift: A's own
\* from a reference with that axis over MR, computed from the alignment taken
\* from a [VR,* ] or [* ,VR] reference.
AlignWithChecks(this, A) ==
    <<Chk("FreeColAlignment", ~this.constrainedColAlignment),
      Chk("SameGrid", A.sameGrid)>>
AW_ColAlignment(A) ==
    IF A.dist \in {"MR_MC", "MR_STAR", "VR_STAR"} THEN A.colAlignment
    ELSE A.rowAlignment
AW_ColShift_Recomputed(A, q) == Shift(MRRank(q), 0, c)
AW_ColShift(A, q) ==
    IF A.dist \in {"MR_MC", "MR_STAR"} THEN A.colShift
    ELSE IF A.dist \in {"MC_MR", "STAR_MR"} THEN A.rowShift
    ELSE Shift(MRRank(q), AW_ColAlignment(A), c)
AlignWith_AlignmentOnly(n, S) ==
    Each(LAMBDA q :
        Outcome(n, q, AlignWithChecks(dm[n][q], Of(S, q)),
                [dm[n][q] EXCEPT !.colAlignment = AW_ColAlignment(Of(S, q)),
                                 !.constrainedColAlignment = TRUE,
                                 !.height = 0, !.width = 0,
                                 !.viewShape = <<0, 0>>],
                FreshMatrix(0, 0, q), <<>>))
AlignWith(n, S) ==
    Each(LAMBDA q :
        Outcome(n, q, AlignWithChecks(dm[n][q], Of(S, q)),
                [dm[n][q] EXCEPT !.colAlignment = AW_ColAlignment(Of(S, q)),
                                 !.colShift = AW_ColShift(Of(S, q), q),
                                 !.constrainedColAlignment = TRUE,
                                 !.height = 0, !.width = 0,
                                 !.viewShape = <<0, 0>>],
                FreshMatrix(0, 0, q), <<>>))

\* --------------------------------------------------------------- ResizeTo
\* Matrix<T>::ResizeTo on the local matrix of a view: a view has a fixed size.
ViewSizeChecks(this, height, width) ==
    IF this.viewing
    THEN <<Chk("ViewSize",
               <<LocalLength(height, this.colShift, c), width>> = this.viewShape)>>
    ELSE <<>>
\* The height and the width are stored before the local matrix is resized:
\* a process on which the local matrix rejects its new shape throws with the
\* two already stored.
ResizeTo(n, height, width) ==
    Each(LAMBDA q :
        IF Fails(ResizeChecks(dm[n][q], height, width))
        THEN Outcome(n, q, ResizeChecks(dm[n][q], height, width),
                     dm[n][q], LocalOf(dm, n, q), <<>>)
        ELSE [failed |-> FALSE,
              meets |-> Meets(ResizeChecks(dm[n][q], height, width)
                              \o ViewSizeChecks(dm[n][q], height, width)),
              this |-> ResizedThis(dm[n][q], height, width),
              local |-> IF dm[n][q].viewing THEN LocalOf(dm, n, q)
                        ELSE ResizedLocal(dm[n][q], height, width, q),
              trace |-> CheckTrace(ResizeChecks(dm[n][q], height, width)
                                   \o ViewSizeChecks(dm[n][q], height, width)),
              ret |-> Zero])

\* -------------------------------------------------- Get, Set and Update
BroadcastEv(comm, root, count) ==
    Event("comm", "Broadcast", comm, NoRank, root, count, count)
AllReduceEv(comm, count) ==
    Event("comm", "AllReduce", comm, NoRank, NoRank, count, count)
EntryChecks(this, i, j) ==
    <<Chk("ValidEntry", i >= 0 /\ i < this.height /\ j >= 0 /\ j < this.width)>>
OwnerCol_OfShift(this, i) == (i + this.colShift) % c
OwnerCol(this, i) == (i + this.colAlignment) % c
LocalRow(this, i) == (i - this.colShift) \div c
SetLocalEntry(M, iLoc, j, u) ==
    LocalMatrix(M.h, M.w,
                LAMBDA k, l : IF k = iLoc /\ l = j THEN u ELSE M.d[1 + k + l * M.h])
\* The owner column reads its local entry, the others receive it.
Get_OwnEntry(n, i, j) ==
    Each(LAMBDA q :
        [Outcome(n, q, EntryChecks(dm[n][q], i, j), dm[n][q], LocalOf(dm, n, q),
                 <<BroadcastEv("MR", OwnerCol(dm[n][q], i), 1)>>)
         EXCEPT !.ret = At(LocalOf(dm, n, q), LocalRow(dm[n][q], i), j, q)])
Get(n, i, j) ==
    Each(LAMBDA q :
        [Outcome(n, q, EntryChecks(dm[n][q], i, j), dm[n][q], LocalOf(dm, n, q),
                 <<BroadcastEv("MR", OwnerCol(dm[n][q], i), 1)>>)
         EXCEPT !.ret =
            At(LocalOf(dm, n, <<MCRank(q), OwnerCol(dm[n][q], i)>>),
               LocalRow(dm[n][<<MCRank(q), OwnerCol(dm[n][q], i)>>], i), j,
               <<MCRank(q), OwnerCol(dm[n][q], i)>>)])
\* DistMatrix<complex<Z>,MR,Star>::GetReal: as Get, of the entry's real part.
RealPart(e) == IF e.u # 0 THEN e ELSE Elem(e.re, 0)
GetReal(n, i, j) ==
    LET get == Get(n, i, j)
    IN Each(LAMBDA q : [Of(get, q) EXCEPT !.ret = RealPart(@)])
\* Matrix<T>::Set and Matrix<T>::Update, reached by the processes of the
\* owner column only: the local matrix of a locked view is not written.
LocalWriteChecks(this, i, q) ==
    IF MRRank(q) = OwnerCol(this, i)
    THEN <<Chk("UnlockedLocalMatrix", ~this.lockedView)>>
    ELSE <<>>
Set(n, i, j, u) ==
    Each(LAMBDA q :
        Outcome(n, q,
                EntryChecks(dm[n][q], i, j) \o LocalWriteChecks(dm[n][q], i, q),
                dm[n][q],
                IF MRRank(q) = OwnerCol(dm[n][q], i)
                THEN SetLocalEntry(LocalOf(dm, n, q), LocalRow(dm[n][q], i), j, u)
                ELSE LocalOf(dm, n, q),
                <<>>))
Update_AsSet(n, i, j, u) == Set(n, i, j, u)
Update(n, i, j, u) ==
    Each(LAMBDA q :
        Outcome(n, q,
                EntryChecks(dm[n][q], i, j) \o LocalWriteChecks(dm[n][q], i, q),
                dm[n][q],
                IF MRRank(q) = OwnerCol(dm[n][q], i)
                THEN SetLocalEntry(LocalOf(dm, n, q), LocalRow(dm[n][q], i), j,
                                   Add(At(LocalOf(dm, n, q), LocalRow(dm[n][q], i),
                                          j, q), u))
                ELSE LocalOf(dm, n, q),
                <<>>))
\* DistMatrix<complex<Z>,MR,Star>::SetReal, SetImag, UpdateReal, UpdateImag:
\* as Set and Update, of one part of the entry; the other part is kept, and
\* an entry never written stays undefined.
SetReal(n, i, j, u) ==
    Each(LAMBDA q :
        Outcome(n, q,
                EntryChecks(dm[n][q], i, j) \o LocalWriteChecks(dm[n][q], i, q),
                dm[n][q],
                IF MRRank(q) = OwnerCol(dm[n][q], i)
                THEN LET old == At(LocalOf(dm, n, q), LocalRow(dm[n][q], i), j, q)
                     IN SetLocalEntry(LocalOf(dm, n, q), LocalRow(dm[n][q], i), j,
                                      IF old.u # 0 THEN old ELSE Elem(u, old.im))
                ELSE LocalOf(dm, n, q),
                <<>>))
SetImag(n, i, j, u) ==
    Each(LAMBDA q :
        Outcome(n, q,
                EntryChecks(dm[n][q], i, j) \o LocalWriteChecks(dm[n][q], i, q),
                dm[n][q],
                IF MRRank(q) = OwnerCol(dm[n][q], i)
                THEN LET old == At(LocalOf(dm, n, q), LocalRow(dm[n][q], i), j, q)
                     IN SetLocalEntry(LocalOf(dm, n, q), LocalRow(dm[n][q], i), j,
                                      IF old.u # 0 THEN old ELSE Elem(old.re, u))
                ELSE LocalOf(dm, n, q),
                <<>>))
UpdateReal(n, i, j, u) ==
    Each(LAMBDA q :
        Outcome(n, q,
                EntryChecks(dm[n][q], i, j) \o LocalWriteChecks(dm[n][q], i, q),
                dm[n][q],
                IF MRRank(q) = OwnerCol(dm[n][q], i)
                THEN LET old == At(LocalOf(dm, n, q), LocalRow(dm[n][q], i), j, q)
                     IN SetLocalEntry(LocalOf(dm, n, q), LocalRow(dm[n][q], i), j,
                                      IF old.u # 0 THEN old ELSE Elem(old.re + u, old.im))
                ELSE LocalOf(dm, n, q),
                <<>>))
UpdateImag(n, i, j, u) ==
    Each(LAMBDA q :
        Outcome(n, q,
                EntryChecks(dm[n][q], i, j) \o LocalWriteChecks(dm[n][q], i, q),
                dm[n][q],
                IF MRRank(q) = OwnerCol(dm[n][q], i)
                THEN LET old == At(LocalOf(dm, n, q), LocalRow(dm[n][q], i), j, q)
                     IN SetLocalEntry(LocalOf(dm, n, q), LocalRow(dm[n][q], i), j,
                                      IF old.u # 0 THEN old ELSE Elem(old.re, old.im + u))
                ELSE LocalOf(dm, n, q),
                <<>>))

\* --------------------------------- SetToIdentity, SetToRandom, SumOverCol
NotLockedChecks_None(this) == <<>>
NotLockedChecks(this) == <<Chk("NotLockedView", ~this.lockedView)>>
SetToIdentity(n) ==
    Each(LAMBDA q :
        Outcome(n, q, NotLockedChecks(dm[n][q]), dm[n][q],
                LocalMatrix(LocalOf(dm, n, q).h, LocalOf(dm, n, q).w,
                            LAMBDA iLocal, j :
                                IF j = dm[n][q].colShift + iLocal * c THEN One
                                ELSE Zero),
                <<>>))
\* MakeTrapezoidal: column j keeps its rows up to (from) the diagonal
\* i = j - offset (side LEFT) or i = j - offset + height - width (side RIGHT);
\* the local rows set to zero are counted from the shift with the stride c.
MT_LastZeroRow(this, side, offset, j) ==
    IF side = "LEFT" THEN j - offset - 1
    ELSE j - offset + this.height - this.width - 1
MT_FirstZeroRow_Diagonal(this, side, offset, j) ==
    IF side = "LEFT" THEN Max(j - offset, 0)
    ELSE Max(j - offset + this.height - this.width, 0)
MT_FirstZeroRow(this, side, offset, j) ==
    IF side = "LEFT" THEN Max(j - offset + 1, 0)
    ELSE Max(j - offset + this.height - this.width + 1, 0)
\* The local rows of column j passed to memset.
MT_ZeroRows(this, localHeight, side, shape, offset, j) ==
    IF shape = "LOWER"
    THEN IF MT_LastZeroRow(this, side, offset, j) >= 0
         THEN 0..(RawLocalLength(
                     IF MT_LastZeroRow(this, side, offset, j) + 1 <= this.height
                     THEN MT_LastZeroRow(this, side, offset, j) + 1
                     ELSE this.height,
                     this.colShift, c) - 1)
         ELSE {}
    ELSE IF RawLocalLength(MT_FirstZeroRow(this, side, offset, j),
                           this.colShift, c) < localHeight
         THEN RawLocalLength(MT_FirstZeroRow(this, side, offset, j),
                             this.colShift, c)..(localHeight - 1)
         ELSE {}
MakeTrapezoidal(n, side, shape, offset) ==
    Each(LAMBDA q :
        Outcome(n, q, NotLockedChecks(dm[n][q]), dm[n][q],
                LocalMatrix(LocalOf(dm, n, q).h, LocalOf(dm, n, q).w,
                            LAMBDA iLocal, j :
                                IF iLocal \in MT_ZeroRows(dm[n][q],
                                                          LocalOf(dm, n, q).h,
                                                          side, shape, offset, j)
                                THEN Zero
                                ELSE At(LocalOf(dm, n, q), iLocal, j, q)),
                <<>>))
\* SampleUnitBall on process q: the k-th sample of the run numbered seed.
Sample(seed, q, k) == Elem(10 * seed + k, 1 + VCRank(q))
\* bufSize: the entries of the local matrix.
SR_BufSize_Global(this, local) == this.height * this.width
SR_BufSize(this, local) == local.h * this.width
\* Grid row 0 samples, the others receive its buffer.
SetToRandom_OwnSamples(n, seed) ==
    Each(LAMBDA q :
        Outcome(n, q, NotLockedChecks(dm[n][q]), dm[n][q],
                LocalMatrix(LocalOf(dm, n, q).h, dm[n][q].width,
                            LAMBDA iLocal, j :
                                Sample(seed, q, iLocal + j * LocalOf(dm, n, q).h)),
                Scoped(SR_BufSize(dm[n][q], LocalOf(dm, n, q)),
                       <<BroadcastEv("MC", 0,
                                     SR_BufSize(dm[n][q], LocalOf(dm, n, q)))>>)))
SetToRandom(n, seed) ==
    Each(LAMBDA q :
        Outcome(n, q, NotLockedChecks(dm[n][q]), dm[n][q],
                LocalMatrix(LocalOf(dm, n, q).h, dm[n][q].width,
                            LAMBDA iLocal, j :
                                Sample(seed, <<0, MRRank(q)>>,
                                       iLocal
                                       + j * LocalOf(dm, n, <<0, MRRank(q)>>).h)),
                Scoped(SR_BufSize(dm[n][q], LocalOf(dm, n, q)),
                       <<BroadcastEv("MC", 0,
                                     SR_BufSize(dm[n][q], LocalOf(dm, n, q)))>>)))
\* DistMatrix<Z,MR,Star>::SetToRandomHPD: SetToRandom, then the width is added
\* to the diagonal.
HPDChecks(this) ==
    NotLockedChecks(this) \o <<Chk("Square", this.height = this.width)>>
    \o NotLockedChecks(this)
SetToRandomHPD(n, seed) ==
    LET random == SetToRandom(n, seed)
    IN Each(LAMBDA q :
           Outcome(n, q, HPDChecks(dm[n][q]), dm[n][q],
                   LocalMatrix(Of(random, q).local.h, Of(random, q).local.w,
                               LAMBDA iLocal, j :
                                   IF j = dm[n][q].colShift + iLocal * c
                                   THEN Add(At(Of(random, q).local, iLocal, j, q),
                                            Elem(dm[n][q].width, 0))
                                   ELSE At(Of(random, q).local, iLocal, j, q)),
                   SelectSeq(Of(random, q).trace, LAMBDA e : ~IsCheck(e))))
\* mpi::AllReduce with mpi::SUM over the grid column, in the order of the rows.
RECURSIVE SumOver(_, _, _)
SumOver(column, k, acc) ==
    IF k = r THEN acc ELSE SumOver(column, k + 1, Add(acc, column[k + 1]))
SumOverCol(n) ==
    Each(LAMBDA q :
        Outcome(n, q, NotLockedChecks(dm[n][q]), dm[n][q],
                LocalMatrix(LocalOf(dm, n, q).h, dm[n][q].width,
                            LAMBDA iLocal, j :
                                SumOver([k \in 1..r |->
                                            At(LocalOf(dm, n, <<k - 1, MRRank(q)>>),
                                               iLocal, j, <<k - 1, MRRank(q)>>)],
                                        1,
                                        At(LocalOf(dm, n, <<0, MRRank(q)>>),
                                           iLocal, j, <<0, MRRank(q)>>))),
                Scoped(2 * Max(LocalOf(dm, n, q).h * dm[n][q].width, minCollMsg),
                       <<AllReduceEv("MC", Max(LocalOf(dm, n, q).h * dm[n][q].width,
                                               minCollMsg))>>)))

\* ------------------------------------------------------------------- Print
ReduceEv(comm, root, count) ==
    Event("comm", "Reduce", comm, NoRank, root, count, count)
BarrierEv(comm) == Event("comm", "Barrier", comm, NoRank, NoRank, 0, 0)
\* The loop indices (iLocal, j) that write entry k of sendBuf.
PR_Writers_NoShift(this, local, k) ==
    {w \in (0..(local.h - 1)) \X (0..(this.width - 1)) :
        w[1] * c + w[2] * this.height = k}
PR_Writers(this, local, k) ==
    {w \in (0..(local.h - 1)) \X (0..(this.width - 1)) :
        (this.colShift + w[1] * c) + w[2] * this.height = k}
\* sendBuf: height*width zeros, then the local entries at their global place.
PR_SendBuf(this, local, q) ==
    [k \in 1..(this.height * this.width) |->
        IF PR_Writers(this, local, k - 1) = {} THEN Zero
        ELSE At(local, LastOf({w[1] : w \in PR_Writers(this, local, k - 1)}),
                (k - 1) \div this.height, q)] \o <<>>
\* mpi::Reduce with mpi::SUM: the sum of the first k contributions.
RECURSIVE Reduced(_, _)
Reduced(vals, k) == IF k = 0 THEN Zero ELSE Add(Reduced(vals, k - 1), vals[k])
\* What the root (grid row 0, grid column 0) writes to the stream: recvBuf.
PR_Printed(n) ==
    LET root == <<0, 0>>
        sendBufs == [col \in 1..c |->
                        PR_SendBuf(dm[n][<<0, col - 1>>],
                                   LocalOf(dm, n, <<0, col - 1>>),
                                   <<0, col - 1>>)] \o <<>>
    IN [h |-> dm[n][root].height, w |-> dm[n][root].width,
        d |-> [k \in 1..(dm[n][root].height * dm[n][root].width) |->
                  Reduced([col \in 1..c |-> sendBufs[col][k]], c)] \o <<>>]
\* DistMatrixBase<T,MR,STAR>::Print (the module TLC holds the name Print).
\* An empty matrix returns at once; otherwise grid row 0 reduces to its column
\* 0, which prints, and all processes meet in the barrier.
PrintOn(n) ==
    Each(LAMBDA q :
        [Outcome(n, q, <<>>, dm[n][q], LocalOf(dm, n, q),
                 IF dm[n][q].height = 0 \/ dm[n][q].width = 0 THEN <<>>
                 ELSE (IF MCRank(q) = 0
                       THEN <<ReduceEv("MR", 0, dm[n][q].height * dm[n][q].width)>>
                       ELSE <<>>) \o <<BarrierEv("VC")>>)
         EXCEPT !.ret =
            IF q = <<0, 0>> /\ dm[n][q].height # 0 /\ dm[n][q].width # 0
            THEN PR_Printed(n) ELSE Zero])

\* --------------------------------------------------------- View, LockedView
ViewChecks(this, sameGrid) ==
    <<Chk("FreeColAlignment", ~this.constrainedColAlignment),
      Chk("NotStoringData", this.localMatrix.h * this.localMatrix.w = 0),
      Chk("SameGrid", sameGrid)>>
View(n, m, locked) ==
    Each(LAMBDA q :
        Outcome(n, q, ViewChecks(dm[n][q], TRUE),
                [dm[n][q] EXCEPT !.height = dm[m][q].height,
                                 !.width = dm[m][q].width,
                                 !.colAlignment = dm[m][q].colAlignment,
                                 !.colShift = dm[m][q].colShift,
                                 !.viewing = TRUE, !.lockedView = locked,
                                 !.viewOf = m, !.viewAt = <<0, 0>>,
                                 !.viewShape = <<LocalOf(dm, m, q).h,
                                                 LocalOf(dm, m, q).w>>,
                                 !.localMatrix = EmptyMatrix],
                LocalOf(dm, m, q), <<>>))

\* View(A,i,j,height,width) and LockedView(A,i,j,height,width): the rows
\* i..i+height-1 and the columns j..j+width-1 of A.
ValidSubmatrix(A, i, j, height, width) ==
    /\ i >= 0 /\ j >= 0 /\ height >= 0 /\ width >= 0
    /\ i + height <= A.height /\ j + width <= A.width
SubViewChecks(this, A, i, j, height, width) ==
    ViewChecks(this, TRUE)
    \o <<Chk("ValidSubmatrix", ValidSubmatrix(A, i, j, height, width))>>
SubViewAlignment_OfOwner(A, i) == A.colAlignment
SubViewAlignment(A, i) == (A.colAlignment + i) % c
LocalHeightBefore(A, i, q) == LocalLength(i, A.colShift, c)
SubView(n, m, locked, i, j, height, width) ==
    Each(LAMBDA q :
        LET colShift == Shift(MRRank(q), SubViewAlignment(dm[m][q], i), c)
            pos == <<LocalHeightBefore(dm[m][q], i, q), j>>
            shape == <<LocalLength(height, colShift, c), width>>
        IN Outcome(n, q, SubViewChecks(dm[n][q], dm[m][q], i, j, height, width),
                   [dm[n][q] EXCEPT !.height = height,
                                    !.width = width,
                                    !.colAlignment = SubViewAlignment(dm[m][q], i),
                                    !.colShift = colShift,
                                    !.viewing = TRUE, !.lockedView = locked,
                                    !.viewOf = m, !.viewAt = pos,
                                    !.viewShape = shape,
                                    !.localMatrix = EmptyMatrix],
                   Window(LocalOf(dm, m, q), pos, shape, q), <<>>))

\* ----------------------------------------------------------------- calls
\* All processes call the same operation of object n; res holds what each
\* does.  A process that threw keeps the object as it was.  The call returns
\* when the communication calls the processes issued match one another, a
\* process that threw having issued none.  In a RELEASE build the checks are
\* compiled out, and a call that does not meet them is not made.
CommOf(tr) == SelectSeq(tr, IsComm)
Returns(res) == Matches({<<x[1], CommOf(x[2].trace)>> : x \in res})
Invoke(n, op, res) ==
    \E returns \in {Returns(res)} :
       /\ dm' = [m \in Names |-> [q \in Ranks |->
                    IF m = n
                    THEN IF ~(returns /\ ~Of(res, q).failed) THEN dm[m][q]
                         ELSE IF Of(res, q).this.viewOf = ""
                              THEN [Of(res, q).this EXCEPT
                                       !.localMatrix = Of(res, q).local]
                              ELSE Of(res, q).this
                    ELSE IF returns /\ ~Of(res, q).failed
                            /\ Of(res, q).this.viewOf = m
                         THEN [dm[m][q] EXCEPT !.localMatrix =
                                  Embedded(dm[m][q].localMatrix,
                                           Of(res, q).this.viewAt,
                                           Of(res, q).local, q)]
                         ELSE dm[m][q]]]
       /\ trace' = [q \in Ranks |-> Of(res, q).trace]
       /\ ret' = [q \in Ranks |-> IF returns THEN Of(res, q).ret ELSE Zero]
       /\ hung' = ~returns
       /\ lastOp' = op
       /\ nops' = nops + 1
       /\ UNCHANGED <<r, c, release, minCollMsg, H, W, job, at>>
Call(n, op, result) ==
    \E res \in {result} :
       /\ release => \A x \in res : x[2].meets
       /\ Invoke(n, op, res)
\* A call made whether or not it meets the checks' preconditions.
Misuse(n, op, result) == \E res \in {result} : Invoke(n, op, res)

\* ---------------------------------------------------------------- actions
\* The object whose operations Spec explores in full; the other objects are
\* its sources, its targets and the owners of the buffers it views.
Subject == "X"
SetValues == {Elem(7, 1)}
PartValues == {5}
\* The sources of this run: H x W matrices of every distribution.
Sources ==
    {Descr("MR_STAR", TRUE, H, W, a, 0) : a \in 0..(c-1)}
    \cup {Descr("MR_MC", TRUE, H, W, a, b) : a \in 0..(c-1), b \in 0..(r-1)}
    \cup {Descr("VR_STAR", TRUE, H, W, a, 0) : a \in 0..(GridSize-1)}
    \cup {Descr("MC_STAR", TRUE, H, W, a, 0) : a \in 0..(r-1)}
    \cup {Descr("STAR_MC", TRUE, H, W, 0, b) : b \in 0..(r-1)}
    \cup {Descr("STAR_VC", TRUE, H, W, 0, b) : b \in {0, GridSize-1}}
    \cup {Descr(d, TRUE, H, W, 0, 0) :
            d \in {"STAR_STAR", "MD_STAR", "STAR_MD", "MC_MR", "STAR_MR",
                   "VC_STAR", "STAR_VR"}}
    \cup {Descr(d, FALSE, H, W, 0, 0) : d \in {"MR_MC", "MD_STAR", "MC_MR"}}
\* The [MC,MR] sources of AdjointFrom and TransposeFrom: W x H matrices.
TransposeSources ==
    {Descr("MC_MR", TRUE, W, H, a, b) : a \in 0..(r-1), b \in 0..(c-1)}
    \cup {Descr("MC_MR", FALSE, W, H, 0, 0)}
\* Operations that reallocate the buffer are not called on an object of which
\* a view exists.
Reallocates(n) == ~dm[n][<<0, 0>>].viewing

DoAlign(n) ==
    \E a \in 0..c :
        /\ ~Viewed(n)
        /\ Call(n, OpRec("Align", n, "", NoSource), AlignCols(n, a))

DoResizeTo(n) ==
    \E h \in {H, 0 - 1} :
        /\ ~Viewed(n)
        /\ ~dm[n][<<0, 0>>].viewing
        /\ Call(n, OpRec("ResizeTo", n, "", NoSource),
                ResizeTo(n, h, W))

\* The record of an entrywise call: the entry (i,j) and the value passed.
EntryOp(op, n, i, j, u) ==
    [op |-> op, n |-> n, src |-> "",
     A |-> [NoSource EXCEPT !.height = i, !.width = j], u |-> u]

DoSet(n) ==
    \E i \in 0..H, j \in {0, W}, u \in SetValues :
        Call(n, EntryOp("Set", n, i, j, u), Set(n, i, j, u))

DoUpdate(n) ==
    \E i \in 0..H, j \in {0, W}, u \in SetValues :
        Call(n, EntryOp("Update", n, i, j, u), Update(n, i, j, u))

DoSetPart(n) ==
    \E i \in 0..H, j \in {0, W}, u \in PartValues :
        \/ Call(n, EntryOp("SetReal", n, i, j, Elem(u, 0)), SetReal(n, i, j, u))
        \/ Call(n, EntryOp("SetImag", n, i, j, Elem(0, u)), SetImag(n, i, j, u))
        \/ Call(n, EntryOp("UpdateReal", n, i, j, Elem(u, 0)),
                UpdateReal(n, i, j, u))
        \/ Call(n, EntryOp("UpdateImag", n, i, j, Elem(0, u)),
                UpdateImag(n, i, j, u))

DoGet(n) ==
    \E i \in 0..H, j \in {0, W} :
        \/ Call(n, EntryOp("Get", n, i, j, Zero), Get(n, i, j))
        \/ Call(n, EntryOp("GetReal", n, i, j, Zero), GetReal(n, i, j))

DoSetToIdentity(n) ==
    Call(n, OpRec("SetToIdentity", n, "", NoSource), SetToIdentity(n))

DoSetToRandom(n) ==
    \/ Call(n, OpRec("SetToRandom", n, "", NoSource), SetToRandom(n, 1))
    \/ Call(n, OpRec("SetToRandomHPD", n, "", NoSource), SetToRandomHPD(n, 1))

DoSumOverCol(n) ==
    Call(n, OpRec("SumOverCol", n, "", NoSource), SumOverCol(n))

DoAssign(n) ==
    \E A \in Sources :
        /\ Reallocates(n) => ~Viewed(n)
        /\ Call(n, OpRec("Assign", n, "", A), Assign(n, A))

DoAssignNamed(n) ==
    \E m \in Names \ {n} :
        /\ Reallocates(n) => ~Viewed(n)
        /\ Call(n, OpRec("Assign", n, m,
                         Descr("MR_STAR", TRUE, dm[m][<<0, 0>>].height,
                               dm[m][<<0, 0>>].width, dm[m][<<0, 0>>].colAlignment, 0)),
                AssignFromMR_STAR(n, NamedSource(m)))

DoAdjointFrom(n) ==
    \E A \in TransposeSources :
        /\ Reallocates(n) => ~Viewed(n)
        /\ Call(n, OpRec("AdjointFrom", n, "", A),
                AdjointFrom(n, ExternalSource(A)))

DoTransposeFrom(n) ==
    \E A \in TransposeSources :
        /\ Reallocates(n) => ~Viewed(n)
        /\ Call(n, OpRec("TransposeFrom", n, "", A),
                TransposeFrom(n, ExternalSource(A)))

DoPrint(n) ==
    Call(n, OpRec("Print", n, "", NoSource), PrintOn(n))

DoView(n) ==
    \E m \in Names \ {n}, locked \in BOOLEAN :
        /\ dm[m][<<0, 0>>].viewOf = ""
        /\ ~Viewed(n)
        /\ Call(n, OpRec(IF locked THEN "LockedView" ELSE "View", n, m, NoSource),
                View(n, m, locked))

Init ==
    /\ r \in 1..MaxR
    /\ c \in 1..MaxC
    /\ release \in BOOLEAN
    /\ minCollMsg \in 1..MaxMinCollMsg
    /\ H \in 0..MaxH
    /\ W \in 0..MaxW
    /\ dm = [n \in Names |-> [q \in Ranks |-> NewDistMatrix(q)]]
    /\ trace = [q \in Ranks |-> <<>>]
    /\ ret = [q \in Ranks |-> Zero]
    /\ lastOp = OpRec("Init", "", "", NoSource)
    /\ hung = FALSE
    /\ nops = 0
    /\ job = NoJob
    /\ at = [q \in Ranks |-> Idle]

\* Operations on any object.
Common(n) ==
    \/ DoAlign(n)
    \/ DoResizeTo(n)
    \/ DoAssignNamed(n)
    \/ DoView(n)
    \/ DoSetToIdentity(n)

\* Operations explored on the subject only.
Full(n) ==
    \/ DoSet(n)
    \/ DoUpdate(n)
    \/ DoGet(n)
    \/ DoSetToRandom(n)
    \/ DoSumOverCol(n)
    \/ DoPrint(n)
    \/ DoAssign(n)
    \/ DoAdjointFrom(n)
    \/ DoTransposeFrom(n)

Next ==
    /\ nops < MaxOps
    /\ ~hung
    /\ \/ \E n \in Names : Common(n)
       \/ Full(Subject)

Spec == Init /\ [][Next]_vars

\* ------------------------------------------------- what a call left behind
Threw(q) == \E k \in 1..Len(trace[q]) : IsThrow(trace[q][k])
\* The last call returned normally on every process.
Completed == ~hung /\ \A q \in Ranks : ~Threw(q)
\* Object n holds the matrix F in the [MR,* ] layout of its own alignment:
\* local row iLocal of a process is the global row colShift + iLocal*c.
Represents(d, n, F(_, _)) ==
    \A q \in Ranks :
        /\ LocalOf(d, n, q).h = LocalLength(d[n][q].height, d[n][q].colShift, c)
        /\ LocalOf(d, n, q).w = d[n][q].width
        /\ \A i \in 0..(LocalOf(d, n, q).h - 1), j \in 0..(d[n][q].width - 1) :
              At(LocalOf(d, n, q), i, j, q) = F(d[n][q].colShift + i * c, j)

\* -------------------------------------------- chains of [MR,* ] assignments
\* SpecChain: the two objects start as constructed or after Align(a), X is
\* filled from a source and the objects are assigned to one another.
MaxChain == 3      \* calls per behaviour of SpecChain
MaxChainC == 3     \* grid widths 1..MaxChainC in SpecChain
Aligned(q, a) ==
    [NewDistMatrix(q) EXCEPT !.colAlignment = a,
                             !.colShift = Shift(MRRank(q), a, c),
                             !.constrainedColAlignment = TRUE]
Fills ==
    {Descr("STAR_STAR", TRUE, H, W, 0, 0)}
    \cup {Descr("MR_STAR", TRUE, H, W, a, 0) : a \in 0..(c-1)}
DoFill(n) ==
    \E A \in Fills : Call(n, OpRec("Assign", n, "", A), Assign(n, A))
InitChain ==
    /\ r \in 1..MaxR
    /\ c \in 1..MaxChainC
    /\ release \in BOOLEAN
    /\ minCollMsg \in 1..MaxMinCollMsg
    /\ H \in 0..MaxH
    /\ W \in 0..MaxW
    /\ \E ax \in 0..c, ay \in 0..c :
          dm = [n \in Names |-> [q \in Ranks |->
                   IF n = "X"
                   THEN IF ax = c THEN NewDistMatrix(q) ELSE Aligned(q, ax)
                   ELSE IF ay = c THEN NewDistMatrix(q) ELSE Aligned(q, ay)]]
    /\ trace = [q \in Ranks |-> <<>>]
    /\ ret = [q \in Ranks |-> Zero]
    /\ lastOp = OpRec("Init", "", "", NoSource)
    /\ hung = FALSE
    /\ nops = 0
    /\ job = NoJob
    /\ at = [q \in Ranks |-> Idle]
NextChain ==
    /\ nops < MaxChain
    /\ ~hung
    /\ \/ DoFill(Subject)
       \/ \E n \in Names : DoAssignNamed(n)
SpecChain == InitChain /\ [][NextChain]_vars

\* ------------------------------------------------------- entrywise access
\* SpecEntry: X, constructed or aligned, is resized or filled and its entries
\* are set, updated and read.
MaxEntry == 3      \* calls per behaviour of SpecEntry
InitEntry ==
    /\ r \in 1..MaxR
    /\ c \in 1..MaxC
    /\ release \in BOOLEAN
    /\ minCollMsg \in 1..MaxMinCollMsg
    /\ H \in 0..MaxH
    /\ W \in {0, MaxW}
    /\ \E ax \in 0..c :
          dm = [n \in Names |-> [q \in Ranks |->
                   IF n = Subject /\ ax < c THEN Aligned(q, ax)
                   ELSE NewDistMatrix(q)]]
    /\ trace = [q \in Ranks |-> <<>>]
    /\ ret = [q \in Ranks |-> Zero]
    /\ lastOp = OpRec("Init", "", "", NoSource)
    /\ hung = FALSE
    /\ nops = 0
    /\ job = NoJob
    /\ at = [q \in Ranks |-> Idle]
NextEntry ==
    /\ nops < MaxEntry
    /\ ~hung
    /\ \/ DoFill(Subject)
       \/ DoResizeTo(Subject)
       \/ DoSet(Subject)
       \/ DoUpdate(Subject)
       \/ DoSetPart(Subject)
       \/ DoGet(Subject)
SpecEntry == InitEntry /\ [][NextEntry]_vars

\* -------------------------------------------------------------- alignment
\* SpecAlign: the objects, constructed or aligned, are aligned with references
\* of the six distributions and with one another, resized, filled, viewed and
\* assigned to one another; an alignment call is also made on an object whose
\* alignment is constrained, in either build.
MaxAlign == 2      \* calls per behaviour of SpecAlign
AlignRefs ==
    {Descr(d, TRUE, H, W, a, 0) : d \in {"MR_MC", "MR_STAR"}, a \in 0..(c-1)}
    \cup {Descr(d, TRUE, H, W, 0, b) : d \in {"MC_MR", "STAR_MR"}, b \in 0..(c-1)}
    \cup {Descr("VR_STAR", TRUE, H, W, a, 0) : a \in 0..(GridSize-1)}
    \cup {Descr("STAR_VR", TRUE, H, W, 0, b) : b \in 0..(GridSize-1)}
    \cup {Descr("MR_MC", FALSE, H, W, 0, 0)}
NamedRef(m) ==
    Descr("MR_STAR", TRUE, dm[m][<<0, 0>>].height, dm[m][<<0, 0>>].width,
          dm[m][<<0, 0>>].colAlignment, 0)
DoAlignWith(n) ==
    /\ ~Viewed(n) /\ ~dm[n][<<0, 0>>].viewing
    /\ \/ \E A \in AlignRefs :
             Call(n, OpRec("AlignWith", n, "", A), AlignWith(n, ExternalSource(A)))
       \/ \E m \in Names \ {n} :
             Call(n, OpRec("AlignWith", n, m, NamedRef(m)),
                  AlignWith(n, NamedSource(m)))
\* Align, AlignCols and AlignWith called on an object whose column alignment
\* is constrained.
DoRealign(n) ==
    /\ ~Viewed(n) /\ ~dm[n][<<0, 0>>].viewing
    /\ dm[n][<<0, 0>>].constrainedColAlignment
    /\ \/ \E a \in 0..(c-1) :
             Misuse(n, OpRec("Align", n, "", [NoSource EXCEPT !.colAlignment = a]),
                    AlignCols(n, a))
       \/ \E A \in {B \in AlignRefs : B.sameGrid /\ B.dist \in {"MR_STAR", "MC_MR"}} :
             Misuse(n, OpRec("AlignWith", n, "", A),
                    AlignWith(n, ExternalSource(A)))
InitAlign ==
    /\ r \in 1..MaxR
    /\ c \in 1..MaxC
    /\ release \in BOOLEAN
    /\ minCollMsg \in 1..MaxMinCollMsg
    /\ H \in {0, MaxH}
    /\ W = MaxW
    /\ \E ax \in 0..c, ay \in 0..c :
          dm = [n \in Names |-> [q \in Ranks |->
                   IF n = "X"
                   THEN IF ax = c THEN NewDistMatrix(q) ELSE Aligned(q, ax)
                   ELSE IF ay = c THEN NewDistMatrix(q) ELSE Aligned(q, ay)]]
    /\ trace = [q \in Ranks |-> <<>>]
    /\ ret = [q \in Ranks |-> Zero]
    /\ lastOp = OpRec("Init", "", "", NoSource)
    /\ hung = FALSE
    /\ nops = 0
    /\ job = NoJob
    /\ at = [q \in Ranks |-> Idle]
NextAlign ==
    /\ nops < MaxAlign
    /\ ~hung
    /\ \/ \E n \in Names : DoAlign(n)
       \/ \E n \in Names : DoAlignWith(n)
       \/ \E n \in Names : DoRealign(n)
       \/ \E n \in Names : DoAssignNamed(n)
       \/ \E n \in Names : DoView(n)
       \/ DoResizeTo(Subject)
       \/ DoFill(Subject)
SpecAlign == InitAlign /\ [][NextAlign]_vars

\* ------------------------------------------------------------------ views
\* SpecView: Y holds an H x W matrix under an alignment of its own; X is made
\* a view or a locked view of a rectangle of Y and is then read, written,
\* resized, filled and assigned to.  The operations that write are also
\* called on a locked view in a RELEASE build.
MaxView == 2       \* calls per behaviour of SpecView
MaxViewC == 3      \* grid widths 1..MaxViewC in SpecView
Viewer == "X"
Owner == "Y"
\* An [MR,* ] object after Align(a) and the assignment of the matrix Val.
Holding(q, a, height, width) ==
    [Aligned(q, a) EXCEPT
        !.height = height, !.width = width,
        !.localMatrix =
            LocalMatrix(LocalLength(height, Shift(MRRank(q), a, c), c), width,
                        LAMBDA iLocal, j :
                            Val(Shift(MRRank(q), a, c) + iLocal * c, j))]
\* The record of a view call: the rectangle's first row and column.
ViewOp(locked, n, m, i, j, height, width) ==
    [op |-> IF locked THEN "LockedView" ELSE "View", n |-> n, src |-> m,
     A |-> [NoSource EXCEPT !.height = height, !.width = width],
     i |-> i, j |-> j]
\* The sources assigned to a view: matrices of the view's size.
ViewSources(n) ==
    {Descr(d, TRUE, dm[n][<<0, 0>>].height, dm[n][<<0, 0>>].width, 0, 0) :
        d \in {"STAR_STAR", "MR_STAR", "MC_MR"}}

DoSubView(n, m) ==
    \E locked \in BOOLEAN, i \in 0..H, j \in 0..1 :
        \E height \in 0..(H - i + 1), width \in {1, W - j} :
            Call(n, ViewOp(locked, n, m, i, j, height, width),
                 SubView(n, m, locked, i, j, height, width))

DoWholeView(n, m) ==
    \E locked \in BOOLEAN :
        Call(n, ViewOp(locked, n, m, 0, 0, dm[m][<<0, 0>>].height,
                       dm[m][<<0, 0>>].width),
             View(n, m, locked))

DoEntry(n) ==
    /\ dm[n][<<0, 0>>].viewing
    /\ \E i \in 0..dm[n][<<0, 0>>].height, j \in 0..dm[n][<<0, 0>>].width :
          \/ Call(n, EntryOp("Get", n, i, j, Zero), Get(n, i, j))
          \/ \E u \in SetValues :
                Call(n, EntryOp("Set", n, i, j, u), Set(n, i, j, u))
          \/ \E u \in SetValues :
                Call(n, EntryOp("Update", n, i, j, u), Update(n, i, j, u))

DoResizeView(n) ==
    /\ dm[n][<<0, 0>>].viewing
    /\ \E height \in (0 - 1)..H, width \in {dm[n][<<0, 0>>].width, W + 1} :
          Call(n, OpRec("ResizeTo", n, "",
                        [NoSource EXCEPT !.height = height, !.width = width]),
               ResizeTo(n, height, width))

DoAssignView(n) ==
    /\ dm[n][<<0, 0>>].viewing
    /\ \E A \in ViewSources(n) :
          \/ Call(n, OpRec("Assign", n, "", A), Assign(n, A))
          \/ /\ A.dist = "MC_MR"
             /\ \E B \in {[A EXCEPT !.height = A.width, !.width = A.height]} :
                   \/ Call(n, OpRec("TransposeFrom", n, "", B),
                           TransposeFrom(n, ExternalSource(B)))
                   \/ Call(n, OpRec("AdjointFrom", n, "", B),
                           AdjointFrom(n, ExternalSource(B)))

DoFillView(n) ==
    /\ dm[n][<<0, 0>>].viewing
    /\ \/ Call(n, OpRec("SetToIdentity", n, "", NoSource), SetToIdentity(n))
       \/ Call(n, OpRec("SetToRandom", n, "", NoSource), SetToRandom(n, 1))
       \/ Call(n, OpRec("SumOverCol", n, "", NoSource), SumOverCol(n))

\* A RELEASE build has none of the checks: the calls below, correct but for
\* their target being a locked view, run their bodies.
DoWriteLocked(n) ==
    /\ release
    /\ dm[n][<<0, 0>>].lockedView
    /\ \/ \E i \in 0..(dm[n][<<0, 0>>].height - 1),
             j \in 0..(dm[n][<<0, 0>>].width - 1), u \in SetValues :
             \/ Misuse(n, EntryOp("Set", n, i, j, u), Set(n, i, j, u))
             \/ Misuse(n, EntryOp("Update", n, i, j, u), Update(n, i, j, u))
       \/ Misuse(n, OpRec("SetToIdentity", n, "", NoSource), SetToIdentity(n))
       \/ Misuse(n, OpRec("SumOverCol", n, "", NoSource), SumOverCol(n))
       \/ \E A \in ViewSources(n) :
             /\ A.dist = "STAR_STAR"
             /\ Misuse(n, OpRec("Assign", n, "", A), Assign(n, A))

InitView ==
    /\ r \in 1..MaxR
    /\ c \in 1..MaxViewC
    /\ release \in BOOLEAN
    /\ minCollMsg \in 1..MaxMinCollMsg
    /\ H = MaxH
    /\ W = MaxW
    /\ \E ay \in 0..(c-1) :
          dm = [n \in Names |-> [q \in Ranks |->
                   IF n = Owner THEN Holding(q, ay, H, W)
                   ELSE NewDistMatrix(q)]]
    /\ trace = [q \in Ranks |-> <<>>]
    /\ ret = [q \in Ranks |-> Zero]
    /\ lastOp = OpRec("Init", "", "", NoSource)
    /\ hung = FALSE
    /\ nops = 0
    /\ job = NoJob
    /\ at = [q \in Ranks |-> Idle]
NextView ==
    /\ nops < MaxView
    /\ ~hung
    /\ \/ DoSubView(Viewer, Owner)
       \/ DoWholeView(Viewer, Owner)
       \/ DoEntry(Viewer)
       \/ DoResizeView(Viewer)
       \/ DoAssignView(Viewer)
       \/ DoFillView(Viewer)
       \/ DoWriteLocked(Viewer)
SpecView == InitView /\ [][NextView]_vars

\* ------------------------------------------------------- owners of rows
\* SpecOwner: a single column of up to MaxOwnerH rows held under every
\* alignment on up to MaxOwnerC grid columns; its entries are read, set and
\* updated.
MaxOwner == 2      \* calls per behaviour of SpecOwner
MaxOwnerC == 4     \* grid widths 1..MaxOwnerC in SpecOwner
MaxOwnerH == 5     \* heights 0..MaxOwnerH in SpecOwner
InitOwner ==
    /\ r \in 1..MaxR
    /\ c \in 1..MaxOwnerC
    /\ release \in BOOLEAN
    /\ minCollMsg \in 1..MaxMinCollMsg
    /\ H \in 0..MaxOwnerH
    /\ W = 1
    /\ \E ax \in 0..(c-1) :
          dm = [n \in Names |-> [q \in Ranks |->
                   IF n = Subject THEN Holding(q, ax, H, W)
                   ELSE NewDistMatrix(q)]]
    /\ trace = [q \in Ranks |-> <<>>]
    /\ ret = [q \in Ranks |-> Zero]
    /\ lastOp = OpRec("Init", "", "", NoSource)
    /\ hung = FALSE
    /\ nops = 0
    /\ job = NoJob
    /\ at = [q \in Ranks |-> Idle]
NextOwner ==
    /\ nops < MaxOwner
    /\ ~hung
    /\ \/ DoSet(Subject)
       \/ DoUpdate(Subject)
       \/ DoGet(Subject)
SpecOwner == InitOwner /\ [][NextOwner]_vars

\* ------------------------------------------------------------ a scenario
\* SpecScenario: on the 2 x 2 grid, 4 x 4 matrices of [MC,MR] and the other
\* distributions are assigned to X and transposed into it.
MaxScenario == 2   \* calls per behaviour of SpecScenario
InitScenario ==
    /\ r = 2
    /\ c = 2
    /\ release \in BOOLEAN
    /\ minCollMsg \in 1..MaxMinCollMsg
    /\ H = 4
    /\ W = 4
    /\ \E ax \in 0..c :
          dm = [n \in Names |-> [q \in Ranks |->
                   IF n = Subject /\ ax < c THEN Aligned(q, ax)
                   ELSE NewDistMatrix(q)]]
    /\ trace = [q \in Ranks |-> <<>>]
    /\ ret = [q \in Ranks |-> Zero]
    /\ lastOp = OpRec("Init", "", "", NoSource)
    /\ hung = FALSE
    /\ nops = 0
    /\ job = NoJob
    /\ at = [q \in Ranks |-> Idle]
NextScenario ==
    /\ nops < MaxScenario
    /\ ~hung
    /\ \/ DoAssign(Subject)
       \/ DoTransposeFrom(Subject)
       \/ DoAdjointFrom(Subject)
SpecScenario == InitScenario /\ [][NextScenario]_vars

\* ------------------------------------------------- column vectors
\* SpecVector: H x 1 matrices.  Y holds one; X, constructed or aligned, is
\* filled, made a view of Y and assigned [MC,* ] column vectors of every
\* alignment.
MaxVector == 2     \* calls per behaviour of SpecVector
MaxVectorR == 3    \* grid heights 1..MaxVectorR in SpecVector
MaxVectorC == 3    \* grid widths 1..MaxVectorC in SpecVector
MaxVectorH == 7    \* heights 0..MaxVectorH in SpecVector
MaxVectorP == 6    \* grids of at most MaxVectorP processes in SpecVector
DoAssignVector(n) ==
    \E a \in 0..(r-1) :
        Call(n, OpRec("Assign", n, "", Descr("MC_STAR", TRUE, H, 1, a, 0)),
             Assign(n, Descr("MC_STAR", TRUE, H, 1, a, 0)))
InitVector ==
    /\ r \in 1..MaxVectorR
    /\ c \in 1..MaxVectorC
    /\ r * c <= MaxVectorP
    /\ release \in BOOLEAN
    /\ minCollMsg \in 1..MaxMinCollMsg
    /\ H \in 0..MaxVectorH
    /\ W = 1
    /\ \E ax \in 0..c, ay \in 0..(c-1) :
          dm = [n \in Names |-> [q \in Ranks |->
                   IF n = Owner THEN Holding(q, ay, H, W)
                   ELSE IF ax = c THEN NewDistMatrix(q) ELSE Aligned(q, ax)]]
    /\ trace = [q \in Ranks |-> <<>>]
    /\ ret = [q \in Ranks |-> Zero]
    /\ lastOp = OpRec("Init", "", "", NoSource)
    /\ hung = FALSE
    /\ nops = 0
    /\ job = NoJob
    /\ at = [q \in Ranks |-> Idle]
NextVector ==
    /\ nops < MaxVector
    /\ ~hung
    /\ \/ DoAssignVector(Viewer)
       \/ DoWholeView(Viewer, Owner)
       \/ DoFill(Viewer)
SpecVector == InitVector /\ [][NextVector]_vars

\* ------------------------------------------------------------ trapezoids
\* SpecTrapezoid: Y holds the H x W matrix Val.  A triangle of Y is set to
\* zero, or X becomes a view of Y and a triangle of the view is set to zero,
\* for both sides and shapes and the offsets that move the diagonal through
\* and beyond the matrix.
MaxTrapezoid == 2  \* calls per behaviour of SpecTrapezoid
MaxTrapezoidC == 3 \* grid widths 1..MaxTrapezoidC in SpecTrapezoid
MaxOffset == 4     \* offsets -MaxOffset..MaxOffset in SpecTrapezoid
TrapezoidOp(n, side, shape, offset) ==
    [op |-> "MakeTrapezoidal", n |-> n, src |-> "", A |-> NoSource,
     side |-> side, shape |-> shape, offset |-> offset]
DoMakeTrapezoidal(n) ==
    /\ IF n = Owner THEN nops = 0 ELSE dm[n][<<0, 0>>].viewing
    /\ \E side \in {"LEFT", "RIGHT"}, shape \in {"LOWER", "UPPER"},
          offset \in (0 - MaxOffset)..MaxOffset :
          Call(n, TrapezoidOp(n, side, shape, offset),
               MakeTrapezoidal(n, side, shape, offset))
\* X views the rows from i and the columns from j of Y.
DoTrailingView(n, m) ==
    \E i \in 0..1, j \in 0..1 :
        /\ i <= H /\ j <= W
        /\ Call(n, ViewOp(FALSE, n, m, i, j, H - i, W - j),
                SubView(n, m, FALSE, i, j, H - i, W - j))
InitTrapezoid ==
    /\ r \in 1..MaxR
    /\ c \in 1..MaxTrapezoidC
    /\ release \in BOOLEAN
    /\ minCollMsg \in 1..MaxMinCollMsg
    /\ H \in 0..MaxH
    /\ W \in 0..MaxW
    /\ \E ay \in 0..(c-1) :
          dm = [n \in Names |-> [q \in Ranks |->
                   IF n = Owner THEN Holding(q, ay, H, W)
                   ELSE NewDistMatrix(q)]]
    /\ trace = [q \in Ranks |-> <<>>]
    /\ ret = [q \in Ranks |-> Zero]
    /\ lastOp = OpRec("Init", "", "", NoSource)
    /\ hung = FALSE
    /\ nops = 0
    /\ job = NoJob
    /\ at = [q \in Ranks |-> Idle]
NextTrapezoid ==
    /\ nops < MaxTrapezoid
    /\ ~hung
    /\ \/ DoTrailingView(Viewer, Owner)
       \/ \E n \in Names : DoMakeTrapezoidal(n)
SpecTrapezoid == InitTrapezoid /\ [][NextTrapezoid]_vars

\* ------------------------------------------- a call, process by process
\* SpecLive: one assignment to X run by the processes at their own pace.  Each
\* process runs its checks, enters its communication calls one after the other
\* and blocks in each until it completes, then unpacks and returns.
MaxLive == 1       \* calls per behaviour of SpecLive
AllRanks == (0..(MaxR-1)) \X (0..(MaxC-1))
LiveSources ==
    {Descr("MR_STAR", TRUE, H, W, a, 0) : a \in 0..(c-1)}
    \cup {Descr("MR_MC", TRUE, H, W, a, b) : a \in 0..(c-1), b \in 0..(r-1)}
    \cup {Descr("VR_STAR", TRUE, H, W, a, 0) : a \in {0, GridSize-1}}
    \cup {Descr(d, TRUE, H, W, 0, 0) : d \in {"MC_STAR", "MD_STAR"}}
\* The call in progress: per process, what it will have done when it returns
\* and the communication calls it issues on the way.
Job(res) ==
    [q \in Ranks |->
        [failed |-> Of(res, q).failed, this |-> Of(res, q).this,
         local |-> Of(res, q).local, trace |-> Of(res, q).trace,
         comm |-> CommOf(Of(res, q).trace)]]
CommOn(q) == job[q].comm
\* The processes whose calls the k-th communication call of q waits for.
Partners(e, q) ==
    IF e.kind = "SendRecv" THEN {PeerOf(e.comm, q, e.from), PeerOf(e.comm, q, e.to)}
    ELSE IF e.kind = "Redistribute" THEN Ranks
    ELSE CommMembers(e.comm, q)
\* A blocking call completes when the partners have entered the matching call.
CanComplete(q, k) ==
    /\ MatchesAt({<<x, job[x].comm>> : x \in Ranks}, q, k)
    /\ \A x \in Partners(CommOn(q)[k], q) : at[x].entered >= k
\* A process returns when it has nothing left to do: every communication call
\* it issues has completed.
MayReturn_NoWait(q) ==
    /\ at[q].state = "running"
    /\ at[q].entered = Len(CommOn(q))
MayReturn(q) ==
    /\ at[q].state = "running"
    /\ at[q].entered = at[q].completed
    /\ at[q].completed = Len(CommOn(q))

Begin ==
    /\ job = NoJob /\ nops < MaxLive
    /\ \E A \in LiveSources : \E res \in {Assign(Subject, A)} :
        /\ release => \A x \in res : x[2].meets
        /\ job' = Job(res)
        /\ at' = [q \in Ranks |-> Position("running", 0, 0)]
        /\ lastOp' = OpRec("Assign", Subject, "", A)
        /\ trace' = [q \in Ranks |-> <<>>]
        /\ nops' = nops + 1
        /\ UNCHANGED <<r, c, release, minCollMsg, H, W, dm, hung, ret>>
Enter(q) ==
    /\ job # NoJob /\ at[q].state = "running"
    /\ at[q].entered = at[q].completed
    /\ at[q].entered < Len(CommOn(q))
    /\ at' = [at EXCEPT ![q].entered = at[q].entered + 1]
    /\ UNCHANGED <<r, c, release, minCollMsg, H, W, dm, hung, ret, job, lastOp,
                   trace, nops>>
Complete(q) ==
    /\ job # NoJob /\ at[q].state = "running"
    /\ at[q].entered = at[q].completed + 1
    /\ CanComplete(q, at[q].entered)
    /\ at' = [at EXCEPT ![q].completed = at[q].entered]
    /\ UNCHANGED <<r, c, release, minCollMsg, H, W, dm, hung, ret, job, lastOp,
                   trace, nops>>
Return(q) ==
    /\ job # NoJob /\ MayReturn(q)
    /\ at' = [at EXCEPT ![q].state =
                 IF job[q].failed THEN "threw" ELSE "returned"]
    /\ dm' = [dm EXCEPT ![Subject][q] =
                 IF job[q].failed THEN dm[Subject][q]
                 ELSE [job[q].this EXCEPT !.localMatrix = job[q].local]]
    /\ trace' = [trace EXCEPT ![q] = job[q].trace]
    /\ UNCHANGED <<r, c, release, minCollMsg, H, W, hung, ret, job, lastOp, nops>>
Step(q) == q \in Ranks /\ (Enter(q) \/ Complete(q) \/ Return(q))
InitLive ==
    /\ r \in 1..MaxR
    /\ c \in 1..MaxC
    /\ release \in BOOLEAN
    /\ minCollMsg \in 1..MaxMinCollMsg
    /\ H \in 0..MaxH
    /\ W \in {0, MaxW}
    /\ \E ax \in 0..c :
          dm = [n \in Names |-> [q \in Ranks |->
                   IF n = Subject /\ ax < c THEN Aligned(q, ax)
                   ELSE NewDistMatrix(q)]]
    /\ trace = [q \in Ranks |-> <<>>]
    /\ ret = [q \in Ranks |-> Zero]
    /\ lastOp = OpRec("Init", "", "", NoSource)
    /\ hung = FALSE
    /\ nops = 0
    /\ job = NoJob
    /\ at = [q \in Ranks |-> Idle]
NextLive ==
    \/ Begin
    \/ \E q \in Ranks : Enter(q)
    \/ \E q \in Ranks : Complete(q)
    \/ \E q \in Ranks : Return(q)
\* Every process keeps running its code, and a communication call whose
\* partners have arrived completes.
SpecLive ==
    InitLive /\ [][NextLive]_vars /\ \A q \in AllRanks : WF_vars(Step(q))

\* ================================================================== claims
RoundTripStep ==
    (/\ lastOp.op = "Assign" /\ lastOp.src # "" /\ Completed
     /\ lastOp'.op = "Assign" /\ lastOp'.n = lastOp.src /\ lastOp'.src = lastOp.n
     /\ nops' = nops + 1 /\ Completed'
     /\ \A q \in Ranks :
           dm'[lastOp.src][q].colAlignment = dm[lastOp.src][q].colAlignment)
    => \A q \in Ranks :
          /\ dm'[lastOp.src][q].height = dm[lastOp.src][q].height
          /\ dm'[lastOp.src][q].width = dm[lastOp.src][q].width
          /\ dm'[lastOp.src][q].colShift = dm[lastOp.src][q].colShift
          /\ LocalOf(dm', lastOp.src, q) = LocalOf(dm, lastOp.src, q)
\* C1 -- Round trip: when an [MR,* ] object is assigned to an [MR,* ] object of
\* another (or the same) column alignment and the result is assigned back to
\* the first object, whose alignment is still the original one, the first
\* object has the same global shape and, on every process, exactly the local
\* entries it had before the two assignments.
C1_RoundTrip == [][RoundTripStep]_vars
\* X was filled, assigned to Y of another alignment (the only way Y gets
\* entries in SpecChain) and assigned back, through a SendRecv each way.
C1_Witness ==
    /\ nops = MaxChain /\ Completed
    /\ lastOp.op = "Assign" /\ lastOp.n = "X" /\ lastOp.src = "Y"
    /\ H > 1 /\ W > 1 /\ c > 1
    /\ \A q \in Ranks :
          /\ dm["Y"][q].height = H /\ dm["Y"][q].width = W
          /\ dm["Y"][q].colAlignment # dm["X"][q].colAlignment
          /\ dm["X"][q].constrainedColAlignment
          /\ Len(CommCalls(q)) = 1
    /\ Represents(dm, "X", Val)

SameColumn(q1, q2) == MRRank(q1) = MRRank(q2)
AgreeWhereWritten(M1, M2) ==
    /\ M1.h = M2.h /\ M1.w = M2.w
    /\ \A k \in 1..Len(M1.d) :
          \/ M1.d[k] = M2.d[k]
          \/ ~IsDefined(M1.d[k]) /\ ~IsDefined(M2.d[k])
IsRedistribution ==
    lastOp.op \in {"Assign", "AdjointFrom", "TransposeFrom"}
CallShape(q) ==
    [k \in 1..Len(CommCalls(q)) |-> <<CommCalls(q)[k].kind, CommCalls(q)[k].comm>>]
\* C3 -- Collective agreement: in every assignment, TransposeFrom and
\* AdjointFrom all processes issue the same ordered sequence of communication
\* calls on the same communicators (so they took the same branch), a SendRecv
\* is on MRComm or VRComm and comes before the AllGather, which is on MCComm,
\* and the processes of one AllGather (a grid column) pass the same portion
\* size.
C3_CollectiveAgreement ==
    IsRedistribution =>
        /\ \A q1 \in Ranks, q2 \in Ranks : CallShape(q1) = CallShape(q2)
        /\ \A q \in Ranks : \A k \in 1..Len(CommCalls(q)) :
              /\ CommCalls(q)[k].kind = "SendRecv" =>
                    /\ CommCalls(q)[k].comm \in {"MR", "VR"}
                    /\ \A l \in 1..Len(CommCalls(q)) :
                          CommCalls(q)[l].kind = "AllGather" => k < l
              /\ CommCalls(q)[k].kind = "AllGather" =>
                    /\ CommCalls(q)[k].comm = "MC"
                    /\ \A q2 \in Ranks :
                          SameColumn(q, q2) =>
                             CommCalls(q2)[k].scount = CommCalls(q)[k].scount
\* An [MR,MC] source of another column alignment on a 2 x 2 grid: every process
\* issued a SendRecv on MRComm and then an AllGather on MCComm.
C3_Witness ==
    /\ lastOp.op = "Assign" /\ lastOp.A.dist = "MR_MC" /\ Completed
    /\ r > 1 /\ c > 1 /\ H > 1 /\ W > 1
    /\ \A q \in Ranks :
          CallShape(q) = <<<<"SendRecv", "MR">>, <<"AllGather", "MC">>>>

InCall == job # NoJob
IsBack(q) == at[q].state \in {"returned", "threw"}
AllBack == InCall /\ \A q \in Ranks : IsBack(q)
ReturnedAfterComm ==
    \A q \in Ranks :
        IsBack(q) => /\ at[q].entered = Len(CommOn(q))
                     /\ at[q].completed = at[q].entered
\* C4 -- Blocking completion: once all processes have called an assignment,
\* every process eventually is back from it, and a process that has returned
\* has entered and completed every communication call it issues.
C4_BlockingCompletion == [](InCall => ReturnedAfterComm) /\ (InCall ~> AllBack)
\* All four processes of a 2 x 2 grid returned from an assignment in which
\* each went through a SendRecv and an AllGather.
C4_Witness ==
    /\ AllBack /\ r > 1 /\ c > 1 /\ H > 1 /\ W > 1
    /\ \A q \in Ranks :
          /\ at[q].state = "returned" /\ at[q].completed = 2
          /\ trace[q] = job[q].trace
          /\ CommOn(q)[1].kind = "SendRecv" /\ CommOn(q)[2].kind = "AllGather"

ValidityChecks ==
    {"NotLockedView", "SameGrid", "SameSize", "SameSizeAsTranspose", "ValidEntry"}
BeforeComm(q, k) == \A l \in 1..k : ~IsComm(trace[q][l])
\* C5 -- Checks precede communication: in every call (Get, SetToRandom,
\* SumOverCol, TransposeFrom, AdjointFrom and the assignments, staged ones
\* included) no process throws after it has issued a communication call, and
\* each validity check it evaluates (locked view, same grid, view size, entry
\* index) it has evaluated before its first communication call.
C5_ChecksPrecedeCommunication ==
    \A q \in Ranks : \A k \in 1..Len(trace[q]) :
        /\ IsThrow(trace[q][k]) => BeforeComm(q, k)
        /\ (IsCheck(trace[q][k]) /\ trace[q][k].kind \in ValidityChecks) =>
              \E l \in 1..k : /\ trace[q][l] = trace[q][k]
                              /\ BeforeComm(q, l)
\* A staged assignment of a debug build: every process evaluated its checks,
\* then the temporaries were redistributed and the last stage communicated.
C5_Witness ==
    /\ ~release /\ lastOp.op = "Assign" /\ lastOp.A.dist = "MC_MR" /\ Completed
    /\ \A q \in Ranks :
          /\ Len(CommCalls(q)) > 2
          /\ IsCheck(trace[q][1]) /\ IsCheck(trace[q][2])
          /\ \E k \in 1..Len(trace[q]) : IsCheck(trace[q][k]) /\ ~BeforeComm(q, k)

IsFromMD(op) == op.op = "Assign" /\ op.A.dist \in {"MD_STAR", "STAR_MD"}
FromMDStep ==
    (IsFromMD(lastOp') /\ nops' = nops + 1) =>
        /\ dm' = dm
        /\ ~hung'
        /\ \A q \in Ranks :
              /\ \E k \in 1..Len(trace'[q]) : IsThrow(trace'[q][k])
              /\ CommOf(trace'[q]) = <<>>
\* C6 -- Unsupported conversion: an assignment from an [MD,* ] or [* ,MD]
\* source throws on every process, in every build, without any communication
\* call, and leaves the target's dimensions, alignment, shift and local data
\* (and every other object) as they were.
C6_UnsupportedConversion == [][FromMDStep]_vars
\* A RELEASE build (no checks) assigned an [MD,* ] or [* ,MD] matrix to an X
\* holding a matrix: every process threw and X still holds the matrix.
C6_Witness ==
    /\ IsFromMD(lastOp) /\ release /\ nops = 2
    /\ GridSize > 1 /\ H > 0 /\ W > 0
    /\ \A q \in Ranks : Threw(q) /\ dm["X"][q].height = H /\ dm["X"][q].width = W
    /\ \E q \in Ranks : Len(LocalOf(dm, "X", q).d) > 0

ZeroExtent ==
    /\ IsRedistribution /\ Completed
    /\ lastOp.A.height = 0 \/ lastOp.A.width = 0
IsPortionCall(e) == e.kind \in {"SendRecv", "AllGather"}
EmptyTarget ==
    \A q \in Ranks :
        /\ dm[lastOp.n][q].height * dm[lastOp.n][q].width = 0
        /\ Len(LocalOf(dm, lastOp.n, q).d) = 0
\* C7 -- Zero extent (as amended): an assignment, TransposeFrom or AdjointFrom
\* from a source of height 0 or width 0 leaves an empty target, but the
\* communication calls of the branch are issued all the same: except from an
\* [MR,* ] or [* ,* ] source every process calls AllGather, and every SendRecv
\* and AllGather carries MIN_COLL_MSG entries (none from an [MR,* ] source).
C7_ZeroExtentStillCommunicates ==
    ZeroExtent =>
        /\ EmptyTarget
        /\ \A q \in Ranks :
              /\ lastOp.A.dist \notin {"MR_STAR", "STAR_STAR"} =>
                    \E k \in 1..Len(CommCalls(q)) :
                        CommCalls(q)[k].kind = "AllGather"
              /\ \A k \in 1..Len(CommCalls(q)) :
                    IsPortionCall(CommCalls(q)[k]) =>
                        /\ CommCalls(q)[k].scount =
                              IF lastOp.A.dist = "MR_STAR" THEN 0 ELSE minCollMsg
                        /\ CommCalls(q)[k].rcount = CommCalls(q)[k].scount
\* A 0 x W matrix [MR,MC] of another alignment on a 2 x 2 grid: every process
\* went through the SendRecv and the AllGather and X is empty.
C7_Witness ==
    /\ ZeroExtent /\ lastOp.op = "Assign" /\ lastOp.A.dist = "MR_MC"
    /\ r > 1 /\ c > 1 /\ H = 0 /\ W > 1
    /\ \A q \in Ranks :
          /\ dm["X"][q].width = W
          /\ CallShape(q) = <<<<"SendRecv", "MR">>, <<"AllGather", "MC">>>>
\* C7 as stated: a source of height 0 or width 0 yields an empty target and no
\* process issues a SendRecv or an AllGather.
C7_ZeroExtentShortCircuit ==
    ZeroExtent =>
        /\ EmptyTarget
        /\ \A q \in Ranks : \A k \in 1..Len(CommCalls(q)) :
              ~IsPortionCall(CommCalls(q)[k])

\* The step is an assignment from an [MR,* ] source that no process rejected.
FromMR_STAR ==
    /\ lastOp'.op = "Assign" /\ lastOp'.A.dist = "MR_STAR" /\ nops' = nops + 1
    /\ \A q \in Ranks : ~Threw(q)'
\* The source's local matrix on process q, and the source's entry (i,j) as
\* held in q's grid row.
SourceLocal(q) ==
    IF lastOp'.src = "" THEN ExternalOn(lastOp'.A, q).local
    ELSE LocalOf(dm, lastOp'.src, q)
SourceEntry(q, i, j) ==
    IF lastOp'.src = "" THEN Val(i, j)
    ELSE At(LocalOf(dm, lastOp'.src,
                    <<MCRank(q), (i + lastOp'.A.colAlignment) % c>>),
            i \div c, j, <<MCRank(q), (i + lastOp'.A.colAlignment) % c>>)
TargetAfter(q) == dm'[lastOp'.n][q]

FastPathStep ==
    (/\ FromMR_STAR
     /\ \A q \in Ranks : TargetAfter(q).colAlignment = lastOp'.A.colAlignment)
    => /\ ~hung'
       /\ \A q \in Ranks :
             /\ CommOf(trace'[q]) = <<>>
             /\ TargetAfter(q).height = lastOp'.A.height
             /\ TargetAfter(q).width = lastOp'.A.width
             /\ LocalOf(dm', lastOp'.n, q) = SourceLocal(q)
\* C8 -- Fast path: an assignment from an [MR,* ] source whose column alignment
\* is that of the target issues no communication call on any process, gives the
\* target the source's dimensions and makes every process's local matrix a
\* copy of the source's local matrix on that process.
C8_FastPathPurity == [][FastPathStep]_vars
\* X, constrained to the alignment 1, was assigned a matrix [MR,* ] of that
\* alignment without any communication call.
C8_Witness ==
    /\ lastOp.op = "Assign" /\ lastOp.A.dist = "MR_STAR" /\ Completed
    /\ c > 1 /\ H > 1 /\ W > 1 /\ lastOp.A.colAlignment = 1
    /\ \A q \in Ranks :
          /\ dm[lastOp.n][q].constrainedColAlignment
          /\ dm[lastOp.n][q].colAlignment = 1
          /\ CommCalls(q) = <<>>
    /\ Represents(dm, lastOp.n, Val)

ShiftStep ==
    (/\ FromMR_STAR
     /\ \A q \in Ranks : TargetAfter(q).colAlignment # lastOp'.A.colAlignment)
    => /\ ~hung'
       /\ \A q \in Ranks :
           /\ Len(CommOf(trace'[q])) = 1
           /\ \A e \in {CommOf(trace'[q])[1]} :
              /\ e.kind = "SendRecv" /\ e.comm = "MR"
              /\ e.to = (MRRank(q) + c + TargetAfter(q).colAlignment
                           - lastOp'.A.colAlignment) % c
              /\ e.from = (MRRank(q) + c + lastOp'.A.colAlignment
                             - TargetAfter(q).colAlignment) % c
              /\ CommOf(trace'[<<MCRank(q), e.to>>])[1].from = MRRank(q)
              /\ CommOf(trace'[<<MCRank(q), e.from>>])[1].to = MRRank(q)
              /\ CommOf(trace'[<<MCRank(q), e.to>>])[1].rcount = e.scount
           /\ TargetAfter(q).height = lastOp'.A.height
           /\ TargetAfter(q).width = lastOp'.A.width
           /\ TargetAfter(q).colShift =
                 (MRRank(q) + c - TargetAfter(q).colAlignment) % c
           /\ LocalOf(dm', lastOp'.n, q).h =
                 LocalLength(lastOp'.A.height, TargetAfter(q).colShift, c)
           /\ LocalOf(dm', lastOp'.n, q).w = lastOp'.A.width
           /\ \A i \in 0..(LocalOf(dm', lastOp'.n, q).h - 1),
                 j \in 0..(lastOp'.A.width - 1) :
                 At(LocalOf(dm', lastOp'.n, q), i, j, q)
                   = SourceEntry(q, TargetAfter(q).colShift + i * c, j)
\* C9 -- Alignment-only shift: an assignment from an [MR,* ] source of column
\* alignment aA to a target of another column alignment a makes every process
\* issue exactly one SendRecv on MRComm and nothing else, to the rank
\* (rank + a - aA) mod c and from the rank (rank + aA - a) mod c; the process it
\* sends to receives from it and the one it receives from sends to it, with a
\* receive count equal to the count sent; afterwards the target has the
\* source's dimensions and every process holds, as its local row iLocal, the
\* source's row shift + iLocal*c, its shift being (rank - a) mod c.
C9_AlignmentOnlyShift == [][ShiftStep]_vars
\* On a grid of three columns X, constrained to the alignment 2, was assigned
\* a matrix [MR,* ] of alignment 1: every process sent to its right neighbour
\* and received from its left one.
C9_Witness ==
    /\ lastOp.op = "Assign" /\ lastOp.A.dist = "MR_STAR" /\ Completed
    /\ c = 3 /\ H > 1 /\ W > 1 /\ lastOp.A.colAlignment = 1
    /\ \A q \in Ranks :
          /\ dm[lastOp.n][q].colAlignment = 2
          /\ Len(CommCalls(q)) = 1
          /\ CommCalls(q)[1].to = (MRRank(q) + 1) % c
          /\ CommCalls(q)[1].from = (MRRank(q) + 2) % c
    /\ Represents(dm, lastOp.n, Val)

FromAlignedMR_MC ==
    /\ lastOp.op = "Assign" /\ lastOp.A.dist = "MR_MC"
    /\ \A q \in Ranks :
          /\ ~Threw(q)
          /\ dm[lastOp.n][q].colAlignment = lastOp.A.colAlignment
\* C10 -- Replication by all-gather: an assignment from an [MR,MC] source whose
\* column alignment is the target's makes every process issue exactly one
\* AllGather on MCComm and nothing else; afterwards the target has the source's
\* dimensions, every process holds all columns of its rows of the source,
\* whatever the source's row alignment, and the processes of a grid column hold
\* identical local matrices.
C10_ReplicationByAllGather ==
    FromAlignedMR_MC =>
        /\ ~hung
        /\ \A q \in Ranks :
              /\ CallShape(q) = <<<<"AllGather", "MC">>>>
              /\ dm[lastOp.n][q].height = lastOp.A.height
              /\ dm[lastOp.n][q].width = lastOp.A.width
        /\ Represents(dm, lastOp.n, Val)
        /\ \A q1 \in Ranks, q2 \in Ranks :
              SameColumn(q1, q2) =>
                  LocalOf(dm, lastOp.n, q1) = LocalOf(dm, lastOp.n, q2)
\* A 2 x 2 grid and a source whose row alignment and column alignment are 1.
C10_Witness ==
    /\ FromAlignedMR_MC /\ ~hung
    /\ r > 1 /\ c > 1 /\ H > 1 /\ W > 1
    /\ lastOp.A.rowAlignment = 1 /\ lastOp.A.colAlignment = 1
    /\ \E q \in Ranks : Len(LocalOf(dm, lastOp.n, q).d) > 2

FromSTAR_STAR ==
    /\ lastOp.op = "Assign" /\ lastOp.A.dist = "STAR_STAR"
    /\ \A q \in Ranks : ~Threw(q)
\* C11 -- De-replication: an assignment from a [* ,* ] source issues no
\* communication call on any process and returns; afterwards the target has
\* the source's dimensions and on every process local(iLocal,j) is the source's
\* entry (colShift + iLocal*c, j) for iLocal < LocalLength(height, colShift, c)
\* and j < width: each process keeps the rows it owns under the target's
\* alignment and shift.
C11_DeReplication ==
    FromSTAR_STAR =>
        /\ ~hung
        /\ \A q \in Ranks :
              /\ CommCalls(q) = <<>>
              /\ dm[lastOp.n][q].height = lastOp.A.height
              /\ dm[lastOp.n][q].width = lastOp.A.width
        /\ Represents(dm, lastOp.n, Val)
\* X, aligned to the grid column 1 of a grid of two columns, was assigned a
\* [* ,* ] matrix of three rows: column 1 keeps rows 0 and 2, column 0 row 1.
C11_Witness ==
    /\ FromSTAR_STAR /\ ~hung /\ c > 1 /\ H = 3 /\ W > 1
    /\ \A q \in Ranks :
          /\ dm[lastOp.n][q].colAlignment = 1
          /\ LocalOf(dm, lastOp.n, q).h = (IF MRRank(q) = 1 THEN 2 ELSE 1)
          /\ At(LocalOf(dm, lastOp.n, q), 0, 1, q) = Val(1 - MRRank(q), 1)

RECURSIVE SumLocalLength(_, _, _)
SumLocalLength(n, stride, k) ==
    IF k = 0 THEN 0
    ELSE SumLocalLength(n, stride, k - 1) + LocalLength(n, k - 1, stride)
RECURSIVE SumLocalHeights(_, _, _)
SumLocalHeights(n, row, k) ==
    IF k = 0 THEN 0
    ELSE SumLocalHeights(n, row, k - 1) + LocalOf(dm, n, <<row, k - 1>>).h
\* The grid columns whose process of grid row 0 holds the global row i of n.
Contributors(n, i) ==
    {col \in 0..(c - 1) :
        \E iLocal \in 0..(LocalOf(dm, n, <<0, col>>).h - 1) :
            dm[n][<<0, col>>].colShift + iLocal * c = i}
PrintedEntry(i, j) == ret[<<0, 0>>].d[1 + i + j * ret[<<0, 0>>].h]
\* C12 -- Partition law: the LocalLength(n, shift, stride) of the stride shifts
\* add up to n (n the height of the run, stride the grid's width and the
\* grid's size); after ResizeTo(h,w) the local heights of the c processes of a
\* grid row add up to h; and when a non-empty matrix is printed every global
\* row is contributed by exactly one grid column, so that the entry the root
\* prints, the sum of the contributions, is that column's local entry.
C12_PartitionLaw ==
    /\ SumLocalLength(H, c, c) = H
    /\ SumLocalLength(H, GridSize, GridSize) = H
    /\ (lastOp.op = "ResizeTo" /\ Completed) =>
          \A row \in 0..(r - 1) :
              SumLocalHeights(lastOp.n, row, c) = dm[lastOp.n][<<row, 0>>].height
    /\ (lastOp.op = "Print" /\ dm[lastOp.n][<<0, 0>>].height > 0
        /\ dm[lastOp.n][<<0, 0>>].width > 0) =>
          /\ ~hung
          /\ ret[<<0, 0>>].h = dm[lastOp.n][<<0, 0>>].height
          /\ ret[<<0, 0>>].w = dm[lastOp.n][<<0, 0>>].width
          /\ \A i \in 0..(ret[<<0, 0>>].h - 1) :
                /\ Cardinality(Contributors(lastOp.n, i)) = 1
                /\ \A col \in Contributors(lastOp.n, i) :
                   \A j \in 0..(ret[<<0, 0>>].w - 1) :
                      PrintedEntry(i, j) =
                         At(LocalOf(dm, lastOp.n, <<0, col>>),
                            (i - dm[lastOp.n][<<0, col>>].colShift) \div c, j,
                            <<0, col>>)
\* X, of alignment 1 on a grid of two columns, was resized to 3 x W by an
\* assignment (column 1 holds two rows, column 0 one) and printed: the root
\* wrote the matrix.
C12_Witness ==
    /\ lastOp.op = "Print" /\ Completed /\ c = 2 /\ H = 3 /\ W > 1
    /\ \A q \in Ranks : dm["X"][q].colAlignment = 1
    /\ LocalOf(dm, "X", <<0, 1>>).h = 2 /\ LocalOf(dm, "X", <<0, 0>>).h = 1
    /\ ret[<<0, 0>>].h = H /\ ret[<<0, 0>>].w = W
    /\ \A i \in 0..(H - 1), j \in 0..(W - 1) : PrintedEntry(i, j) = Val(i, j)

IsGet(op) == op.op \in {"Get", "GetReal"}
IsWrite(op) == op.op \in {"Set", "Update"}
\* The process of q's grid row that owns the row of the entry op names in the
\* object op.n as d holds it, and the entry it stores there.
OwnerOf(d, op, q) ==
    <<MCRank(q), (op.A.height + d[op.n][q].colAlignment) % c>>
Stored(d, op, q) ==
    At(LocalOf(d, op.n, OwnerOf(d, op, q)),
       (op.A.height - d[op.n][OwnerOf(d, op, q)].colShift) \div c, op.A.width,
       OwnerOf(d, op, q))
Shown(op, e) == IF op.op = "GetReal" THEN RealPart(e) ELSE e
GetReturnsStored ==
    (IsGet(lastOp) /\ \A q \in Ranks : ~Threw(q)) =>
        /\ ~hung
        /\ \A q \in Ranks :
              /\ CommCalls(q) =
                    <<BroadcastEv("MR", (lastOp.A.height
                                         + dm[lastOp.n][q].colAlignment) % c, 1)>>
              /\ ret[q] = Shown(lastOp, Stored(dm, lastOp, q))
        /\ \A q1 \in Ranks, q2 \in Ranks :
              (MCRank(q1) = MCRank(q2) \/ IsDefined(Stored(dm, lastOp, q1)))
                 => ret[q1] = ret[q2]
WriteStep ==
    (IsWrite(lastOp') /\ nops' = nops + 1 /\ \A q \in Ranks : ~Threw(q)') =>
        /\ ~hung'
        /\ \A q \in Ranks :
              /\ CommOf(trace'[q]) = <<>>
              /\ Stored(dm', lastOp', q) =
                    IF lastOp'.op = "Set" THEN lastOp'.u
                    ELSE Add(Stored(dm, lastOp', q), lastOp'.u)
C14_AlignmentInRange ==
    \A n \in Names : \A q \in Ranks :
        dm[n][q].colAlignment >= 0 /\ dm[n][q].colAlignment < c

\* The step is an Align, AlignCols or AlignWith (with a reference on the same
\* grid and an alignment in range) of an object whose alignment is constrained.
IsRealign ==
    /\ lastOp'.op \in {"Align", "AlignWith"} /\ nops' = nops + 1
    /\ lastOp'.A.sameGrid
    /\ \A q \in Ranks : dm[lastOp'.n][q].constrainedColAlignment
Requested(op) == IF op.op = "Align" THEN op.A.colAlignment ELSE AW_ColAlignment(op.A)
Rejected ==
    /\ dm' = dm /\ ~hung'
    /\ \A q \in Ranks :
          trace'[q] = <<CheckEv("FreeColAlignment"), ThrowEv("FreeColAlignment")>>
Overwritten ==
    /\ ~hung'
    /\ \A q \in Ranks :
          /\ ~Threw(q)'
          /\ dm'[lastOp'.n][q].colAlignment = Requested(lastOp')
          /\ dm'[lastOp'.n][q].constrainedColAlignment
          /\ dm'[lastOp'.n][q].height = 0 /\ dm'[lastOp'.n][q].width = 0
          /\ Len(LocalOf(dm', lastOp'.n, q).d) = 0
RealignStep ==
    (IsRealign /\ Requested(lastOp') \in 0..(c - 1)) =>
        IF release THEN Overwritten ELSE Rejected
\* C15 -- AlignWith precondition (as amended): Align, AlignCols or AlignWith
\* called on an object whose column alignment is constrained throws on every
\* process in a debug build, by the check of the free alignment, the first
\* thing the call does, and leaves every object as it was; a RELEASE build has
\* no such check: there the call returns, overwrites the alignment and empties
\* the matrix.
C15_RealignRejectedInDebug == [][RealignStep]_vars
\* X, constrained to an alignment and holding a matrix, was aligned again in a
\* debug build: every process threw and X still holds the matrix.
C15_Witness ==
    /\ ~release /\ lastOp.op \in {"Align", "AlignWith"} /\ nops = 2
    /\ lastOp.n = "X" /\ c > 1 /\ H > 0
    /\ \A q \in Ranks :
          /\ trace[q] = <<CheckEv("FreeColAlignment"), ThrowEv("FreeColAlignment")>>
          /\ dm["X"][q].constrainedColAlignment
          /\ dm["X"][q].height = H /\ dm["X"][q].width = W
          /\ dm["X"][q].colAlignment # Requested(lastOp)
\* C15 as stated: Align, AlignCols or AlignWith called on an object whose
\* column alignment is constrained is rejected in every build.
C15_RealignRejected == [][IsRealign => Rejected]_vars

\* The step is an AlignWith, which no process rejected, with a reference whose
\* axis of stride c is dealt over the grid columns.
IsAlignWithMR ==
    /\ lastOp'.op = "AlignWith" /\ nops' = nops + 1
    /\ lastOp'.A.dist \in {"MR_STAR", "MR_MC", "MC_MR", "STAR_MR"}
    /\ \A q \in Ranks : ~Threw(q)'
\* The alignment of that axis of the reference and its shift on process q.
RefAlignment(op) ==
    IF op.A.dist \in {"MR_STAR", "MR_MC"} THEN op.A.colAlignment
    ELSE op.A.rowAlignment
RefShift(op, q) ==
    IF op.src # "" THEN dm[op.src][q].colShift
    ELSE (MRRank(q) + c - RefAlignment(op)) % c
AlignWithStep ==
    IsAlignWithMR =>
        /\ ~hung'
        /\ \A q \in Ranks :
              /\ dm'[lastOp'.n][q].colAlignment = RefAlignment(lastOp')
              /\ dm'[lastOp'.n][q].colShift = RefShift(lastOp', q)
              /\ dm'[lastOp'.n][q].constrainedColAlignment
              /\ dm'[lastOp'.n][q].height = 0 /\ dm'[lastOp'.n][q].width = 0
              /\ LocalOf(dm', lastOp'.n, q).h = 0 /\ LocalOf(dm', lastOp'.n, q).w = 0
\* C16 -- AlignWith effect: after an AlignWith that no process rejected, with an
\* [MR,* ], [MR,MC], [MC,MR] or [* ,MR] reference, the object has, whatever it
\* held before, the column alignment and the shift of the reference's axis
\* dealt over the grid columns (the column axis of [MR,* ] and [MR,MC], the
\* row axis of [MC,MR] and [* ,MR]), its alignment is constrained, its height
\* and width are 0 and its local matrix is 0 x 0 on every process.
C16_AlignWithEffect == [][AlignWithStep]_vars
\* X, after a first call, was aligned with an [MC,MR] reference of row
\* alignment 1 on a grid of two columns: it is empty, constrained, and grid
\* column 1 has the shift 0.
C16_Witness ==
    /\ lastOp.op = "AlignWith" /\ lastOp.n = "X" /\ lastOp.A.dist = "MC_MR"
    /\ lastOp.A.rowAlignment = 1 /\ nops = 2 /\ c = 2 /\ H > 0 /\ Completed
    /\ \A q \in Ranks :
          /\ dm["X"][q].colAlignment = 1 /\ dm["X"][q].colShift = 1 - MRRank(q)
          /\ dm["X"][q].constrainedColAlignment
          /\ dm["X"][q].height = 0 /\ dm["X"][q].localMatrix = EmptyMatrix

IsAlignWith(op) == op.op = "AlignWith"
\* An AlignWith of one [MR,* ] object with the other, which no process rejected.
MutualStep ==
    (/\ IsAlignWith(lastOp') /\ nops' = nops + 1 /\ lastOp'.src # ""
     /\ \A q \in Ranks : ~Threw(q)')
    => /\ ~hung'
       /\ \A q \in Ranks :
             /\ dm'[lastOp'.n][q].colShift = dm'[lastOp'.src][q].colShift
             /\ dm'[lastOp'.n][q].colAlignment = dm'[lastOp'.src][q].colAlignment
\* Two AlignWith calls in a row, of the two objects, with the same reference.
CommonReferenceStep ==
    (/\ IsAlignWith(lastOp) /\ Completed /\ lastOp.src = ""
     /\ IsAlignWith(lastOp') /\ nops' = nops + 1 /\ lastOp'.src = ""
     /\ lastOp'.A = lastOp.A /\ lastOp'.n # lastOp.n
     /\ \A q \in Ranks : ~Threw(q)')
    => /\ ~hung'
       /\ \A q \in Ranks :
             dm'[lastOp'.n][q].colShift = dm'[lastOp.n][q].colShift
\* C17 -- AlignWith symmetry: after X.AlignWith(Y), and equally after
\* Y.AlignWith(X), the two [MR,* ] objects have the same column shift (and
\* alignment) on every process; and two objects aligned one after the other
\* with the same reference have the same shift on every process, whichever of
\* them was aligned first.
C17_AlignWithSymmetry == [][MutualStep]_vars /\ [][CommonReferenceStep]_vars
\* On a grid of two columns the free object Y was aligned with X, which has the
\* alignment 1: both have the shift 1 on grid column 0 and 0 on grid column 1.
C17_Witness ==
    /\ IsAlignWith(lastOp) /\ lastOp.n = "Y" /\ lastOp.src = "X" /\ Completed
    /\ c = 2
    /\ \A q \in Ranks :
          /\ dm["X"][q].colAlignment = 1
          /\ dm["Y"][q].colShift = 1 - MRRank(q)
          /\ dm["Y"][q].colShift = dm["X"][q].colShift
\* ------------------------------------------------------------------ C18
IsResizeTo == lastOp'.op = "ResizeTo" /\ nops' = nops + 1
Differs(n, height, width) ==
    height # dm[n][<<0, 0>>].height \/ width # dm[n][<<0, 0>>].width
ResizeOnViewStep ==
    IsResizeTo =>
        IF dm[lastOp'.n][<<0, 0>>].viewing
        THEN Differs(lastOp'.n, lastOp'.A.height, lastOp'.A.width) =>
                /\ \A q \in Ranks : Threw(q)'
                /\ dm' = dm
        ELSE Completed' =>
                \A q \in Ranks :
                    /\ dm'[lastOp'.n][q].height = lastOp'.A.height
                    /\ dm'[lastOp'.n][q].width = lastOp'.A.width
                    /\ LocalOf(dm', lastOp'.n, q).h
                          = LocalLength(lastOp'.A.height,
                                        dm[lastOp'.n][q].colShift, c)
                    /\ LocalOf(dm', lastOp'.n, q).w = lastOp'.A.width
\* C18 -- ResizeTo(h,w) on a view, locked or not, with (h,w) other than the
\* view's size throws on every process and changes neither the view's height
\* and width nor the owner's buffer; on an object that is not a view it sets
\* the height to h, the width to w and the local shape to
\* LocalLength(h, ColShift, c) x w.
C18_ResizeOnViews == [][ResizeOnViewStep]_vars
\* ------------------------------------------------------------------ C19
Mutators ==
    {"Set", "Update", "ResizeTo", "SetToIdentity", "SetToRandom", "SumOverCol",
     "TransposeFrom", "AdjointFrom", "Assign"}
IsLockedWrite ==
    /\ nops' = nops + 1
    /\ lastOp'.op \in Mutators
    /\ dm[lastOp'.n][<<0, 0>>].lockedView
BufferKept(n) == \A q \in Ranks : dm'[n][q].localMatrix = dm[n][q].localMatrix
\* The processes on which nothing stands between the call and the write: all
\* of them, but for Set and Update the processes of the owner column only.
Writes(q) ==
    lastOp'.op \in {"Set", "Update"}
        => MRRank(q) = OwnerCol(dm[lastOp'.n][q], lastOp'.A.height)
LockedWriteStep ==
    IsLockedWrite =>
        IF release THEN \A q \in Ranks : ~Threw(q)'
        ELSE /\ dm' = dm
             /\ \A q \in Ranks : Writes(q) => Threw(q)'
IsViewCall == lastOp.op \in {"View", "LockedView"} /\ Completed
\* The view lastOp.n of the rows lastOp.i.. and the columns lastOp.j.. of
\* lastOp.src, as process q holds it.
ViewLayout(q) ==
    LET V == dm[lastOp.n][q]
        A == dm[lastOp.src][q]
    IN /\ V.viewOf = lastOp.src
       /\ V.lockedView = (lastOp.op = "LockedView")
       /\ V.height = lastOp.A.height /\ V.width = lastOp.A.width
       /\ V.colAlignment = (A.colAlignment + lastOp.i) % c
       /\ V.colShift = Shift(MRRank(q), V.colAlignment, c)
       /\ LocalOf(dm, lastOp.n, q).h = LocalLength(lastOp.A.height, V.colShift, c)
       /\ LocalOf(dm, lastOp.n, q).w = lastOp.A.width
ViewCells(q) ==
    LET V == dm[lastOp.n][q]
        A == dm[lastOp.src][q]
    IN \A i \in 0..(lastOp.A.height - 1), j \in 0..(lastOp.A.width - 1) :
          /\ OwnerCol(V, i) = OwnerCol(A, lastOp.i + i)
          /\ MRRank(q) = OwnerCol(V, i) =>
                /\ V.viewAt[1] + LocalRow(V, i) = LocalRow(A, lastOp.i + i)
                /\ V.viewAt[2] + j = lastOp.j + j
                /\ LocalRow(V, i) < LocalOf(dm, lastOp.n, q).h
                /\ At(LocalOf(dm, lastOp.n, q), LocalRow(V, i), j, q)
                      = At(A.localMatrix, LocalRow(A, lastOp.i + i),
                           lastOp.j + j, q)
                /\ At(LocalOf(dm, lastOp.n, q), LocalRow(V, i), j, q)
                      = Val(lastOp.i + i, lastOp.j + j)
SubViewLayout ==
    IsViewCall => \A q \in Ranks : ViewLayout(q) /\ ViewCells(q)
\* A Set through a view that is not locked writes the owner's cell at the
\* view's place in the owner's buffer, and no other.
WriteThroughStep ==
    (/\ nops' = nops + 1 /\ lastOp'.op = "Set" /\ Completed'
     /\ dm[lastOp'.n][<<0, 0>>].viewing)
    => \A q \in Ranks :
          LET V == dm[lastOp'.n][q]
          IN dm'[V.viewOf][q].localMatrix =
                IF MRRank(q) = OwnerCol(V, lastOp'.A.height)
                THEN SetLocalEntry(dm[V.viewOf][q].localMatrix,
                                   V.viewAt[1] + LocalRow(V, lastOp'.A.height),
                                   V.viewAt[2] + lastOp'.A.width, lastOp'.u)
                ELSE dm[V.viewOf][q].localMatrix
\* C20 -- after View(A,i,j,h,w) or LockedView(A,i,j,h,w) of a valid rectangle
\* the view has the column alignment (A.ColAlignment() + i) mod c, the shift
\* Shift(MRRank, alignment, c) and the local height LocalLength(h, shift, c);
\* the grid column owning the view's row i' owns A's row i+i', and the view's
\* local cell for (i',j') is A's local cell for (i+i', j+j'): it shows that
\* entry, and a Set through the view writes it.
C20_SubRectangleView == []SubViewLayout /\ [][WriteThroughStep]_vars
\* A view of the rows 1..2 and the columns 1..2 of Y on three grid columns.
C20_Witness ==
    /\ IsViewCall /\ c = 3
    /\ lastOp.i = 1 /\ lastOp.j = 1
    /\ lastOp.A.height = 2 /\ lastOp.A.width = 2
    /\ dm[Owner][<<0, 0>>].colAlignment = 1
    /\ dm[Viewer][<<0, 0>>].viewOf = Owner
\* ------------------------------------------------------------------ C21
IsSetToRandom ==
    nops' = nops + 1 /\ lastOp'.op \in {"SetToRandom", "SetToRandomHPD"}
\* What grid row 0 of the column of q sampled for the local cell (iLocal,j).
Sampled(n, q, iLocal, j) ==
    Sample(1, <<0, MRRank(q)>>, iLocal + j * LocalOf(dm, n, <<0, MRRank(q)>>).h)
OnDiagonal(n, q, iLocal, j) ==
    lastOp'.op = "SetToRandomHPD" /\ j = dm[n][q].colShift + iLocal * c
SeedingStep ==
    IsSetToRandom =>
        \A q \in Ranks :
            ~Threw(q)' =>
                /\ ~hung'
                /\ CommOf(trace'[q])
                      = <<BroadcastEv("MC", 0,
                                      LocalOf(dm, lastOp'.n, q).h
                                      * dm[lastOp'.n][q].width)>>
                /\ \A x \in Ranks :
                      (MRRank(x) = MRRank(q) /\ ~Threw(x)') =>
                          /\ CommOf(trace'[x]) = CommOf(trace'[q])
                          /\ LocalOf(dm', lastOp'.n, x) = LocalOf(dm', lastOp'.n, q)
                /\ LocalOf(dm', lastOp'.n, q).h = LocalOf(dm, lastOp'.n, q).h
                /\ LocalOf(dm', lastOp'.n, q).w = dm[lastOp'.n][q].width
                /\ \A iLocal \in 0..(LocalOf(dm, lastOp'.n, q).h - 1),
                      j \in 0..(dm[lastOp'.n][q].width - 1) :
                      At(LocalOf(dm', lastOp'.n, q), iLocal, j, q)
                        = IF OnDiagonal(lastOp'.n, q, iLocal, j)
                          THEN Add(Sampled(lastOp'.n, q, iLocal, j),
                                   Elem(dm[lastOp'.n][q].width, 0))
                          ELSE Sampled(lastOp'.n, q, iLocal, j)
\* C21 -- SetToRandom seeding: SetToRandom (and SetToRandomHPD through it)
\* issues one Broadcast on each process, on the grid column (MC), rooted at
\* grid row 0, of localHeight*width entries, the same on all the processes of
\* a grid column; afterwards the processes of a grid column hold the same
\* local matrix, the values sampled by the process of that column in grid
\* row 0 (SetToRandomHPD having added the width to the diagonal).
C21_SetToRandomSeeding == [][SeedingStep]_vars
\* Two grid rows and two grid columns, a 3 x 3 matrix filled by SetToRandom:
\* grid row 1 holds what grid row 0 sampled.
C21_Witness ==
    /\ lastOp.op = "SetToRandom" /\ Completed /\ r = 2 /\ c = 2
    /\ dm["X"][<<0, 0>>].height = 3 /\ dm["X"][<<0, 0>>].width = 3
    /\ At(LocalOf(dm, "X", <<1, 1>>), 0, 2, <<1, 1>>) = Sample(1, <<0, 1>>, 2)
\* ------------------------------------------------------------------ C22
MemCalls(q) == SelectSeq(trace[q], IsMem)
\* The operations that take a branch using the auxiliary buffer.
UsesAuxMemory ==
    \/ lastOp.op \in {"SetToRandom", "SetToRandomHPD", "SumOverCol",
                      "TransposeFrom", "AdjointFrom"}
    \/ /\ lastOp.op = "Assign"
       /\ lastOp.A.dist \notin {"STAR_STAR", "MD_STAR", "STAR_MD"}
\* Require and Release alternate, starting with Require, ending with Release.
Alternate(m) ==
    /\ Len(m) % 2 = 0
    /\ \A k \in 1..Len(m) :
          m[k].kind = IF k % 2 = 1 THEN "Require" ELSE "Release"
\* Every communication call the operation makes itself (the redistributions
\* into its temporaries are theirs) lies between the two.
OwnComm(e) == IsComm(e) /\ e.kind # "Redistribute"
Enclosed(q) ==
    \A k \in 1..Len(trace[q]) :
        OwnComm(trace[q][k]) =>
            /\ \E l \in 1..(k-1) : trace[q][l].kind = "Require"
            /\ \E l \in (k+1)..Len(trace[q]) : trace[q][l] = ReleaseEv
\* C22 -- Scratch arena scoping: in every call on an [MR,* ] object that has
\* returned, each process made at most one Require on the object's auxiliary
\* buffer and released it once, after the Require and before returning, on
\* every branch; only SetToRandom, SumOverCol, TransposeFrom, AdjointFrom and
\* assignments make one, with every communication call inside it; a process
\* that threw made none.  So Require and Release alternate over any sequence
\* of calls and none is outstanding between two calls.
C22_ScratchScoping ==
    ~hung =>
        \A q \in Ranks :
            /\ Alternate(MemCalls(q))
            /\ Len(MemCalls(q)) <= 2
            /\ Threw(q) => MemCalls(q) = <<>>
            /\ MemCalls(q) # <<>> => UsesAuxMemory /\ Enclosed(q)
            /\ (/\ SelectSeq(trace[q], OwnComm) # <<>>
                /\ lastOp.op \notin {"Get", "GetReal", "Print"})
                  => MemCalls(q) # <<>>
\* An unaligned assignment from [MR,* ] on two grid columns: Require, the
\* SendRecv, Release.
C22_Witness ==
    /\ lastOp.op = "Assign" /\ lastOp.A.dist = "MR_STAR" /\ Completed /\ c = 2
    /\ \A q \in Ranks :
          /\ Len(SelectSeq(trace[q], LAMBDA e : ~IsCheck(e))) = 3
          /\ SelectSeq(trace[q], LAMBDA e : ~IsCheck(e))[1].kind = "Require"
          /\ SelectSeq(trace[q], LAMBDA e : ~IsCheck(e))[2].kind = "SendRecv"
          /\ SelectSeq(trace[q], LAMBDA e : ~IsCheck(e))[3] = ReleaseEv
\* ------------------------------------------------------------------ C23
\* Owner(i, a, c) is the one rank whose shift is i mod c.
OwnerIsShiftedRank ==
    \A a \in 0..(c-1), i \in 0..MaxOwnerH :
        /\ Shift((i + a) % c, a, c) = i % c
        /\ \A rank \in 0..(c-1) :
              Shift(rank, a, c) = i % c => rank = (i + a) % c
\* On the processes of the owner column of row i the local index is exact,
\* not negative and within the local height.
LocalIndexExact(n) ==
    \A q \in Ranks : \A i \in 0..(dm[n][q].height - 1) :
        /\ OwnerCol(dm[n][q], i) \in 0..(c-1)
        /\ MRRank(q) = OwnerCol(dm[n][q], i) =>
              /\ dm[n][q].colShift = i % c
              /\ i - dm[n][q].colShift >= 0
              /\ (i - dm[n][q].colShift) % c = 0
              /\ LocalRow(dm[n][q], i) * c + dm[n][q].colShift = i
              /\ LocalRow(dm[n][q], i) >= 0
              /\ LocalRow(dm[n][q], i)
                    < LocalLength(dm[n][q].height, dm[n][q].colShift, c)
              /\ LocalLength(dm[n][q].height, dm[n][q].colShift, c)
                    = LocalOf(dm, n, q).h
\* The entry a first Get(i,j) returns and the cell a first Set(i,j,u) writes
\* are those of the global entry (i,j).
EntryReached ==
    (nops = 1 /\ Completed) =>
        /\ lastOp.op = "Get" =>
              \A q \in Ranks : ret[q] = Val(lastOp.A.height, lastOp.A.width)
        /\ lastOp.op \in {"Set", "Update"} =>
              Represents(dm, lastOp.n,
                         LAMBDA i, j :
                            IF i = lastOp.A.height /\ j = lastOp.A.width
                            THEN IF lastOp.op = "Set" THEN lastOp.u
                                 ELSE Add(Val(i, j), lastOp.u)
                            ELSE Val(i, j))
\* C23 -- Owner/Shift consistency: for every stride c, alignment a in [0,c)
\* and index i >= 0, (i + a) mod c is the only rank in [0,c) whose
\* Shift(rank, a, c) is i mod c; hence in Get, Set and Update the local index
\* (i - ColShift)/c on the owning processes is an exact division, is not
\* negative and is below LocalLength(H, ColShift, c) for every i < H, and the
\* entry reached is the global entry (i,j).
C23_OwnerShiftConsistency ==
    OwnerIsShiftedRank /\ LocalIndexExact(Subject) /\ EntryReached
\* Row 4 of a column of five rows under the alignment 2 on three grid columns
\* was read: grid column 0 owns it, at the local index 1.
C23_Witness ==
    /\ lastOp.op = "Get" /\ Completed /\ nops = 1 /\ c = 3
    /\ lastOp.A.height = 4 /\ lastOp.A.width = 0
    /\ dm[Subject][<<0, 0>>].height = 5
    /\ dm[Subject][<<0, 0>>].colAlignment = 2
    /\ OwnerCol(dm[Subject][<<0, 0>>], 4) = 0
    /\ LocalRow(dm[Subject][<<0, 0>>], 4) = 1
    /\ ret[<<0, 2>>] = Val(4, 0)
\* ------------------------------------------------------------------ C24
\* The scenario's matrix: the entry (i,j) of the source, Val(i,j), is 4i + j.
ScenarioValue(e) == 4 * (e.re - 1) + (e.im - 1)
IsScenario ==
    /\ lastOp.op \in {"Assign", "TransposeFrom", "AdjointFrom"}
    /\ lastOp.A.dist = "MC_MR" /\ lastOp.A.sameGrid
    /\ lastOp.A.colAlignment = 0 /\ lastOp.A.rowAlignment = 0
    /\ lastOp.A.height = 4 /\ lastOp.A.width = 4
    /\ r = 2 /\ c = 2
\* The values process q holds of the source A.
LocalSet(A, q) ==
    {ScenarioValue(ExternalOn(A, q).local.d[k]) :
        k \in 1..Len(ExternalOn(A, q).local.d)}
\* The global coordinates of the local cells of process q.
LocalCoordinates(A, q) ==
    {<<ExternalOn(A, q).colShift + i * ColStride(A.dist),
       ExternalOn(A, q).rowShift + j * RowStride(A.dist)>> :
        i \in 0..(ExternalOn(A, q).local.h - 1),
        j \in 0..(ExternalOn(A, q).local.w - 1)}
\* C24 -- Ownership scenario: of the 4 x 4 [MC,MR] matrix with the entries
\* 4i + j and the alignments (0,0) on the 2 x 2 grid, the process (0,0) holds
\* the entries {0, 2, 8, 10}, those of the coordinates (0,0), (0,2), (2,0),
\* (2,2), and the four processes' local sets partition the 16 entries.
C24_OwnershipScenario ==
    IsScenario =>
        /\ LocalSet(lastOp.A, <<0, 0>>) = {0, 2, 8, 10}
        /\ LocalCoordinates(lastOp.A, <<0, 0>>)
              = {<<0, 0>>, <<0, 2>>, <<2, 0>>, <<2, 2>>}
        /\ Len(ExternalOn(lastOp.A, <<0, 0>>).local.d) = 4
        /\ UNION {LocalSet(lastOp.A, q) : q \in Ranks} = 0..15
        /\ \A q1 \in Ranks, q2 \in Ranks :
              q1 # q2 => LocalSet(lastOp.A, q1) \cap LocalSet(lastOp.A, q2) = {}
        /\ \A q \in Ranks : Cardinality(LocalSet(lastOp.A, q)) = 4
\* The scenario's matrix was transposed into X from its [MC,MR] layout.
C24_Witness ==
    /\ IsScenario /\ lastOp.op = "TransposeFrom" /\ Completed
    /\ Represents(dm, lastOp.n, LAMBDA i, j : Val(j, i))

\* ------------------------------------------------- Set and Update, framed
IsLocalWrite(op) ==
    op.op \in {"Set", "Update", "SetReal", "SetImag", "UpdateReal", "UpdateImag"}
\* The entry a write makes of the entry old it finds.
Written(op, old) ==
    CASE op.op = "Set" -> op.u
      [] op.op = "Update" -> Add(old, op.u)
      [] old.u # 0 -> old
      [] op.op = "SetReal" -> Elem(op.u.re, old.im)
      [] op.op = "SetImag" -> Elem(old.re, op.u.im)
      [] OTHER -> Elem(old.re + op.u.re, old.im + op.u.im)
\* Process q stores the global row i of the object whose fields are this.
OwnsRow(this, i, q) == MRRank(q) = (i + this.colAlignment) % c
FramedWriteStep ==
    (IsLocalWrite(lastOp') /\ nops' = nops + 1 /\ \A q \in Ranks : ~Threw(q)') =>
        /\ ~hung'
        /\ \A m \in Names \ {lastOp'.n} : dm'[m] = dm[m]
        /\ \A q \in Ranks :
              LET was == dm[lastOp'.n][q]
                  now == dm'[lastOp'.n][q]
                  iLoc == (lastOp'.A.height - was.colShift) \div c
              IN /\ CommOf(trace'[q]) = <<>>
                 /\ [now EXCEPT !.localMatrix = was.localMatrix] = was
                 /\ now.localMatrix.h = was.localMatrix.h
                 /\ now.localMatrix.w = was.localMatrix.w
                 /\ \A k \in 0..(was.localMatrix.h - 1),
                       l \in 0..(was.localMatrix.w - 1) :
                        At(now.localMatrix, k, l, q) =
                           IF OwnsRow(was, lastOp'.A.height, q)
                              /\ k = iLoc /\ l = lastOp'.A.width
                           THEN Written(lastOp', At(was.localMatrix, k, l, q))
                           ELSE At(was.localMatrix, k, l, q)
\* C25 -- Set/Update are local and framed: a Set(i,j,v) or Update(i,j,v) of a
\* valid entry (and the SetReal, SetImag, UpdateReal, UpdateImag of one part of
\* it) calls no communication; on the processes of the grid column
\* (i + ColAlignment) mod c it changes the local entry ((i - ColShift)/c, j)
\* only, to v or to old + v, and it changes nothing else: not another entry,
\* the height, the width, the alignment, the shift or the view flags of any
\* process, and nothing at all on the processes of the other grid columns.
C25_SetUpdateFramed == [][FramedWriteStep]_vars
\* An Update added its value to an entry written before, on a grid of several
\* columns where some processes own the entry and some do not.
C25_Witness ==
    /\ lastOp.op = "Update" /\ Completed /\ c > 1 /\ r > 1
    /\ \E q \in Ranks :
          /\ OwnsRow(dm[lastOp.n][q], lastOp.A.height, q)
          /\ At(dm[lastOp.n][q].localMatrix,
                (lastOp.A.height - dm[lastOp.n][q].colShift) \div c,
                lastOp.A.width, q) = Elem(14, 2)

\* ---------------------------------------- the two branches of [MC,* ]
IsVectorAssign(op) ==
    op.op = "Assign" /\ op.A.dist = "MC_STAR" /\ op.A.width = 1
VectorAsStagedStep ==
    (IsVectorAssign(lastOp') /\ nops' = nops + 1) =>
        LET staged == AssignFromMC_STAR_Staged(lastOp'.n, lastOp'.A)
        IN /\ ~hung'
           /\ \A q \in Ranks :
                 /\ Threw(q)' = Of(staged, q).failed
                 /\ ~Threw(q)' =>
                       /\ [dm'[lastOp'.n][q] EXCEPT !.localMatrix = <<>>] =
                             [Of(staged, q).this EXCEPT !.localMatrix = <<>>]
                       /\ LocalOf(dm', lastOp'.n, q) = Of(staged, q).local
\* C26 -- Vector path equals staged path: the assignment of an [MC,* ] source
\* of width 1 (pack in [VC,* ] order, one SendRecv on VRComm, one AllGather on
\* MCComm, strided unpack) leaves on every process the fields and the local
\* matrix that the general branch (through [VC,* ] and [VR,* ] temporaries)
\* would have left from the same state: the same size, alignment, shift and
\* entries, for every grid, height and pair of alignments.
C26_VectorEqualsStaged == [][VectorAsStagedStep]_vars
\* A vector longer than the grid was assigned on a 2 x 3 grid to a target
\* whose alignment and the source's are both nonzero, and the target holds it.
C26_Witness ==
    /\ IsVectorAssign(lastOp) /\ Completed /\ r = 2 /\ c = 3 /\ H > r * c
    /\ lastOp.A.colAlignment = 1
    /\ dm[lastOp.n][<<0, 0>>].colAlignment = 1
    /\ Represents(dm, lastOp.n, Val)

\* ------------------------------------------- TransposeFrom, AdjointFrom
IsTranspose(op) == op.op \in {"TransposeFrom", "AdjointFrom"}
\* The entry (i,j) of the target after the call op of the source Val.
TransposeEntry(op, i, j) ==
    IF op.op = "AdjointFrom" THEN Conj(Val(j, i)) ELSE Val(j, i)
TransposeHolds ==
    (IsTranspose(lastOp) /\ \A q \in Ranks : ~Threw(q)) =>
        /\ ~hung
        /\ \A q \in Ranks :
              /\ dm[lastOp.n][q].height = lastOp.A.width
              /\ dm[lastOp.n][q].width = lastOp.A.height
              /\ CallShape(q) =
                    IF dm[lastOp.n][q].colAlignment = lastOp.A.rowAlignment
                    THEN <<<<"AllGather", "MC">>>>
                    ELSE <<<<"SendRecv", "MR">>, <<"AllGather", "MC">>>>
        /\ Represents(dm, lastOp.n, LAMBDA i, j : TransposeEntry(lastOp, i, j))
\* The communication calls of either operation, from the target's fields after
\* the call and the source's alignment: the operation's name plays no part.
TransposeCalls(this, A, q) ==
    IF this.colAlignment = A.rowAlignment
    THEN <<AllGatherEv("MC",
                       Max(LocalLength(this.height, this.colShift, c)
                             * MaxLocalLength(this.width, r), minCollMsg))>>
    ELSE <<SendRecvEv("MR",
                      (MRRank(q) + c + this.colAlignment - A.rowAlignment) % c,
                      (MRRank(q) + c + A.rowAlignment - this.colAlignment) % c,
                      Max(MaxLocalLength(this.height, c)
                            * MaxLocalLength(this.width, r), minCollMsg),
                      Max(MaxLocalLength(this.height, c)
                            * MaxLocalLength(this.width, r), minCollMsg)),
           AllGatherEv("MC",
                       Max(MaxLocalLength(this.height, c)
                             * MaxLocalLength(this.width, r), minCollMsg))>>
SameCommunication ==
    (IsTranspose(lastOp) /\ \A q \in Ranks : ~Threw(q)) =>
        \A q \in Ranks :
            CommCalls(q) = TransposeCalls(dm[lastOp.n][q], lastOp.A, q)
\* C27 -- Transpose/adjoint redistribution: after TransposeFrom(A) (AdjointFrom(A))
\* of an H x W [MC,MR] matrix A the target is W x H and every process holds, in
\* its local row of the global row i, the entries A(j,i) (their conjugates) for
\* all j; a process whose column alignment is A's row alignment calls one
\* AllGather on MCComm, any other one SendRecv on MRComm and then one AllGather
\* on MCComm; the calls of the two operations are the same, with the same sizes
\* and partners.
C27_TransposeRedistribution == TransposeHolds /\ SameCommunication
\* An AdjointFrom took the unaligned branch on two grid columns and rows, of a
\* matrix with several rows and columns.
C27_Witness ==
    /\ lastOp.op = "AdjointFrom" /\ Completed /\ r > 1 /\ c > 1
    /\ lastOp.A.height > 1 /\ lastOp.A.width > 1
    /\ \A q \in Ranks :
          /\ dm[lastOp.n][q].colAlignment # lastOp.A.rowAlignment
          /\ Len(CommCalls(q)) = 2
    /\ Represents(dm, lastOp.n, LAMBDA i, j : Conj(Val(j, i)))

\* ------------------------------------------------------- MakeTrapezoidal
\* The global entry (i,j) of an H x W matrix lies outside the trapezoid of op.
Masked(op, height, width, i, j) ==
    LET d == IF op.side = "LEFT" THEN j - op.offset
             ELSE j - op.offset + height - width
    IN IF op.shape = "LOWER" THEN i < d ELSE i > d
\* The cell (k,l) of the owner's buffer lies in the window the view V shows.
InWindow(V, k, l) ==
    /\ k >= V.viewAt[1] /\ k < V.viewAt[1] + V.viewShape[1]
    /\ l >= V.viewAt[2] /\ l < V.viewAt[2] + V.viewShape[2]
TrapezoidStep ==
    (/\ lastOp'.op = "MakeTrapezoidal" /\ nops' = nops + 1
     /\ \A q \in Ranks : ~Threw(q)') =>
        /\ ~hung'
        /\ \A q \in Ranks :
              LET V == dm[lastOp'.n][q]
                  was == LocalOf(dm, lastOp'.n, q)
                  now == LocalOf(dm', lastOp'.n, q)
              IN /\ CommOf(trace'[q]) = <<>>
                 /\ [dm'[lastOp'.n][q] EXCEPT !.localMatrix = <<>>] =
                       [V EXCEPT !.localMatrix = <<>>]
                 /\ now.h = was.h /\ now.w = was.w
                 /\ was.h = LocalLength(V.height, V.colShift, c)
                 /\ \A iLocal \in 0..(was.h - 1), j \in 0..(was.w - 1) :
                       At(now, iLocal, j, q) =
                          IF Masked(lastOp', V.height, V.width,
                                    V.colShift + iLocal * c, j)
                          THEN Zero
                          ELSE At(was, iLocal, j, q)
                 /\ \A j \in 0..(V.width - 1) :
                       MT_ZeroRows(V, was.h, lastOp'.side, lastOp'.shape,
                                   lastOp'.offset, j) \subseteq 0..(was.h - 1)
                 /\ \A q2 \in Ranks :
                       MRRank(q2) = MRRank(q) =>
                           LocalOf(dm', lastOp'.n, q2).d = now.d
                 /\ \A m \in Names \ {lastOp'.n} :
                       IF V.viewOf # m THEN dm'[m][q] = dm[m][q]
                       ELSE /\ [dm'[m][q] EXCEPT !.localMatrix = <<>>] =
                                  [dm[m][q] EXCEPT !.localMatrix = <<>>]
                            /\ \A k \in 0..(dm[m][q].localMatrix.h - 1),
                                  l \in 0..(dm[m][q].localMatrix.w - 1) :
                                  InWindow(V, k, l)
                                  \/ At(dm'[m][q].localMatrix, k, l, q) =
                                        At(dm[m][q].localMatrix, k, l, q)
\* C28 -- MakeTrapezoidal mask: a MakeTrapezoidal(side, shape, offset) of an
\* H x W matrix calls no communication; with d = j - offset for the side LEFT
\* and d = j - offset + H - W for the side RIGHT it sets to zero the entries
\* (i,j) with i < d when the shape is LOWER, those with i > d when it is UPPER,
\* and no other: every other entry, the fields and the rest of a viewed buffer
\* stay as they were.  The local rows it passes to memset lie in
\* [0, LocalHeight), and the processes of a grid column end with the same
\* local matrix.
C28_MakeTrapezoidalMask == [][TrapezoidStep]_vars
\* On three grid columns the strictly lower triangle of a 3 x 3 matrix was
\* kept (shape UPPER zeroes the rows below the first subdiagonal): some entries
\* were set to zero and some were kept.
C28_Witness ==
    /\ lastOp.op = "MakeTrapezoidal" /\ Completed /\ c = 3 /\ H = 3 /\ W = 3
    /\ lastOp.n = Owner /\ lastOp.shape = "UPPER" /\ lastOp.side = "RIGHT"
    /\ lastOp.offset = 0 - 1
    /\ \A q \in Ranks :
          \A iLocal \in 0..(LocalOf(dm, Owner, q).h - 1), j \in 0..(W - 1) :
              At(LocalOf(dm, Owner, q), iLocal, j, q) =
                 IF dm[Owner][q].colShift + iLocal * c > j + 1 THEN Zero
                 ELSE Val(dm[Owner][q].colShift + iLocal * c, j)

\* ------------------------------------------- constrained alignments kept
Redistributes(op) == op.op \in {"Assign", "TransposeFrom", "AdjointFrom"}
\* The alignment of a view, or one set by Align or AlignWith, binds the object.
Bound(this) == this.viewing \/ this.constrainedColAlignment
ConstrainedStep ==
    (/\ Redistributes(lastOp') /\ nops' = nops + 1
     /\ \A q \in Ranks : Bound(dm[lastOp'.n][q])) =>
        /\ \A q \in Ranks :
              /\ dm'[lastOp'.n][q].colAlignment = dm[lastOp'.n][q].colAlignment
              /\ dm'[lastOp'.n][q].colShift = dm[lastOp'.n][q].colShift
              /\ Bound(dm'[lastOp'.n][q])
        /\ lastOp'.src # "" => dm'[lastOp'.src] = dm[lastOp'.src]
\* C29 -- Constrained alignment is preserved by redistribution: an assignment
\* from a source of any distribution (the staged ones through [VC,* ], [VR,* ]
\* and [MR,MC] temporaries included), a TransposeFrom or an AdjointFrom into a
\* target that is a view, or whose column alignment Align or AlignWith has
\* constrained, leaves the target's ColAlignment and ColShift on every process
\* as they were before the call; a source that is an object of the program is
\* left as it was.
C29_ConstrainedAlignmentKept == [][ConstrainedStep]_vars
\* X, aligned to the grid column 1, was assigned a [* ,VR] matrix through its
\* [* ,VC] and [MR,MC] temporaries and holds it under the alignment 1.
C29_Witness ==
    /\ lastOp.op = "Assign" /\ lastOp.A.dist = "STAR_VR" /\ Completed
    /\ c > 1 /\ H > 1 /\ W > 0
    /\ \A q \in Ranks :
          /\ dm[lastOp.n][q].constrainedColAlignment
          /\ dm[lastOp.n][q].colAlignment = 1
          /\ dm[lastOp.n][q].colShift = (MRRank(q) + c - 1) % c
    /\ Represents(dm, lastOp.n, Val)

\* ------------------------------------------------------ shift consistency
\* The partners of every SendRecv of the last call are ranks of its
\* communicator.
PartnersValid ==
    \A q \in Ranks : \A k \in 1..Len(CommCalls(q)) :
        CommCalls(q)[k].kind = "SendRecv" =>
            /\ CommCalls(q)[k].to \in 0..(CommSize(CommCalls(q)[k].comm) - 1)
            /\ CommCalls(q)[k].from \in 0..(CommSize(CommCalls(q)[k].comm) - 1)
\* C30 -- Shift consistency invariant, as stated: in every state reached by
\* Align, AlignCols, AlignWith (of all six reference distributions), View,
\* LockedView, ResizeTo and assignments, the ColShift of every [MR,* ] object
\* on every process equals (MRRank - ColAlignment + c) mod c and lies in
\* [0, c), and the partners of the SendRecv calls, computed from the
\* alignments, are ranks of their communicator.
C30_ShiftConsistency ==
    /\ \A n \in Names, q \in Ranks :
          /\ dm[n][q].colShift = (MRRank(q) - dm[n][q].colAlignment + c) % c
          /\ dm[n][q].colShift \in 0..(c - 1)
    /\ PartnersValid
====
